---- MODULE Spec2Model ----
(***************************************************************************)
(* Payment orchestration engine of the cross-border payment API.           *)
(*                                                                         *)
(* The repository holds two PaymentOrchestrator classes: the timer-based   *)
(* one (setInterval polling) and the Temporal-backed one (it starts        *)
(* paymentWorkflow).  A deployment uses one of them; `variant` records     *)
(* which, and is chosen in Init.                                           *)
(*                                                                         *)
(* Units: money is in cents (integers); an exchange rate is in hundredths  *)
(* (0.85 is 85); a percentage fee is in ten-thousandths (0.0299 is 299).   *)
(* Source amounts are whole currency units and rates have two decimals, so *)
(* that every product the code computes is an exact integer here; the      *)
(* binary floating-point error of the JavaScript numbers is not modelled.  *)
(***************************************************************************)
EXTENDS Integers, Sequences, FiniteSets, TLC

VARIABLES
    variant,        \* "timer" | "temporal": which PaymentOrchestrator is deployed
    payments,       \* table payments: sequence of rows, the id is the index
    transactions,   \* table transactions: per payment, its rows in insertion order
    webhooks,       \* table webhooks: per payment, its rows in insertion order
    txTimer,        \* per transaction: is its simulateAsyncProcessing timer pending
    flow,           \* per payment: position of its background flow / workflow
    hist,           \* per payment: the statuses written to its row, in order
    creates,        \* createPayment calls: position, request, lookup result, outcome
    cancels,        \* cancelPayment calls: position, payment id, status read, outcome
    delivery,       \* per webhook: HTTP attempts in flight and retry timers pending
    retries,        \* retryWebhook calls: webhook, outcome
    fee_configs,    \* table fee_configs: sequence of rows, in insertion order
    quote,          \* the last calculateFees call: its schedule, amount and result
    exchange_rates, \* table exchange_rates (the rate cache): pair -> rate, expires_at
    clock,          \* the time, in minutes
    rateCall,       \* the getExchangeRate calls: pair, position, result, cache accesses
    txCancels,      \* cancelTransaction calls: transaction, position, outcome
    ticks,          \* per payment: callbacks of the onramp poll awaiting their read
    selection,      \* the last selectProvider call: leg, request, provider chosen
    listing         \* the last getUserPayments call: arguments and result

\* the state of the payment orchestration
ledger == <<variant, payments, transactions, webhooks, txTimer, flow, hist, creates, cancels>>

\* the state of the payment orchestration but for the table webhooks
ledger_but_webhooks == <<variant, payments, transactions, txTimer, flow, hist, creates, cancels>>

\* the state of the webhook deliveries, the fee engine, the rate oracle and
\* the provider adapters' cancelTransaction calls, overlapping polls and
\* selectProvider calls, and the payment listing
aux == <<delivery, retries, fee_configs, quote, exchange_rates, clock, rateCall, txCancels, ticks,
          selection, listing>>

vars == <<variant, payments, transactions, webhooks, txTimer, flow, hist, creates, cancels,
          delivery, retries, fee_configs, quote, exchange_rates, clock, rateCall, txCancels, ticks,
          selection, listing>>

----------------------------------------------------------------------------
(* Bounds of the model *)

\* client calls issued in a behaviour (createPayment, cancelPayment and
\* retryWebhook)
MaxCalls == 2

\* delivery attempts the receiving endpoint fails in a behaviour
MaxFailures == 4

----------------------------------------------------------------------------
(* Enumerations (types/payment.ts) *)

PENDING == "pending"
PROCESSING == "processing"
ONRAMP_COMPLETE == "onramp_complete"
OFFRAMP_PROCESSING == "offramp_processing"
COMPLETED == "completed"
FAILED == "failed"
CANCELLED == "cancelled"

PaymentStatus == {PENDING, PROCESSING, ONRAMP_COMPLETE, OFFRAMP_PROCESSING,
                  COMPLETED, FAILED, CANCELLED}

TX_PROCESSING == "processing"
TX_COMPLETED == "completed"
TX_FAILED == "failed"

ONRAMP == "onramp"
OFFRAMP == "offramp"

PAYMENT_CREATED == "payment.created"
PAYMENT_PROCESSING == "payment.processing"
PAYMENT_COMPLETED == "payment.completed"
PAYMENT_FAILED == "payment.failed"
ONRAMP_COMPLETED == "onramp.completed"

WH_PENDING == "pending"
WH_SENT == "sent"
WH_FAILED == "failed"

----------------------------------------------------------------------------
(* Helpers on sequences *)

Indices(s) == 1..Len(s)

SeqToSet(s) == {s[i] : i \in Indices(s)}

----------------------------------------------------------------------------
(* Fee Calculator (FeeEngine) *)

\* the rows insertDefaultFeeConfigs stores: cents, cents, ten-thousandths
FeeConfigs ==
    [EUR |-> [base_fee |-> 250,   percentage_fee |-> 299, minimum_fee |-> 100,   maximum_fee |-> 5000],
     GBP |-> [base_fee |-> 200,   percentage_fee |-> 299, minimum_fee |-> 100,   maximum_fee |-> 5000],
     CAD |-> [base_fee |-> 300,   percentage_fee |-> 349, minimum_fee |-> 150,   maximum_fee |-> 7500],
     AUD |-> [base_fee |-> 350,   percentage_fee |-> 349, minimum_fee |-> 150,   maximum_fee |-> 7500],
     JPY |-> [base_fee |-> 30000, percentage_fee |-> 399, minimum_fee |-> 10000, maximum_fee |-> 750000],
     INR |-> [base_fee |-> 20000, percentage_fee |-> 399, minimum_fee |-> 10000, maximum_fee |-> 500000],
     BRL |-> [base_fee |-> 1500,  percentage_fee |-> 449, minimum_fee |-> 500,   maximum_fee |-> 30000],
     MXN |-> [base_fee |-> 5000,  percentage_fee |-> 449, minimum_fee |-> 2000,  maximum_fee |-> 100000]]

isCurrencySupported(currency) == currency \in DOMAIN FeeConfigs

\* the fee of a schedule for a destination amount, in cents: the raw fee,
\* raised to minimum_fee, lowered to maximum_fee when that is truthy (NULL
\* and 0 are not), rounded to the cent.  The raw fee base + amount *
\* percentage is kept as whole cents plus a fraction in ten-thousandths of a
\* cent, so that no product leaves the integer range.
totalFee(cfg, destinationAmount) ==
    LET q        == destinationAmount \div 10000
        r        == destinationAmount % 10000
        rawWhole == cfg.base_fee + q * cfg.percentage_fee + (r * cfg.percentage_fee) \div 10000
        rawFrac  == (r * cfg.percentage_fee) % 10000
        belowMin == rawWhole < cfg.minimum_fee
        atMin    == IF belowMin THEN [whole |-> cfg.minimum_fee, frac |-> 0]
                                ELSE [whole |-> rawWhole, frac |-> rawFrac]
        aboveMax == /\ cfg.maximum_fee # 0
                    /\ \/ atMin.whole > cfg.maximum_fee
                       \/ atMin.whole = cfg.maximum_fee /\ atMin.frac > 0
        clamped  == IF aboveMax THEN [whole |-> cfg.maximum_fee, frac |-> 0] ELSE atMin
    IN  clamped.whole + (IF clamped.frac >= 5000 THEN 1 ELSE 0)

\* total_fee of calculateFees under the default schedules
calculateFees(destinationCurrency, destinationAmount) ==
    totalFee(FeeConfigs[destinationCurrency], destinationAmount)

\* the currencies of insertDefaultFeeConfigs, in its order
DefaultCurrencies == << "EUR", "GBP", "CAD", "AUD", "JPY", "INR", "BRL", "MXN" >>

\* a row of the table fee_configs; created_at counts seconds
FeeConfigRow(currency, cfg, created_at) ==
    [currency |-> currency, base_fee |-> cfg.base_fee, percentage_fee |-> cfg.percentage_fee,
     minimum_fee |-> cfg.minimum_fee, maximum_fee |-> cfg.maximum_fee,
     created_at |-> created_at]

\* the table fee_configs after insertDefaultFeeConfigs
DefaultFeeConfigRows ==
    [i \in Indices(DefaultCurrencies) |->
        FeeConfigRow(DefaultCurrencies[i], FeeConfigs[DefaultCurrencies[i]], 0)]

\* the rows getFeeConfig may return: SELECT ... WHERE currency = ? ORDER BY
\* created_at DESC LIMIT 1.  The table has no unique index on currency, and
\* among rows of the same second the order is not defined.
getFeeConfig(currency) ==
    LET rows == {row \in SeqToSet(fee_configs) : row.currency = currency}
    IN  {row \in rows : \A other \in rows : other.created_at <= row.created_at}

----------------------------------------------------------------------------
(* Rate Oracle (ExchangeRateService) *)

\* mockRates['USD'], in hundredths
MockRates ==
    [EUR |-> 85, GBP |-> 73, CAD |-> 125, AUD |-> 135, JPY |-> 11000, INR |-> 7450,
     BRL |-> 520, MXN |-> 2010, CHF |-> 92, SEK |-> 870, NOK |-> 890]

\* the direct rate of the table; the model's requests all have source USD
getBaseRate(sourceCurrency, destinationCurrency) ==
    IF sourceCurrency = "USD" /\ destinationCurrency \in DOMAIN MockRates
    THEN MockRates[destinationCurrency]
    ELSE 100

\* the rates fetchExchangeRate may return: within 2% of the base rate; the
\* model draws the two neighbours of the base rate
fetchExchangeRate(sourceCurrency, destinationCurrency) ==
    LET base == getBaseRate(sourceCurrency, destinationCurrency)
    IN  {rate \in {base - 1, base + 1} :
            /\ rate * 100 >= base * 98
            /\ rate * 100 <= base * 102}

\* the rates getExchangeRate may return for a pair: 1.0 for equal currencies,
\* else a cached or freshly fetched rate
getExchangeRate(sourceCurrency, destinationCurrency) ==
    IF sourceCurrency = destinationCurrency THEN {100}
    ELSE fetchExchangeRate(sourceCurrency, destinationCurrency)

\* cacheExpiryMinutes
CacheExpiryMinutes == 15

----------------------------------------------------------------------------
(* Settlement Provider Adapter: onramp (OnrampService) *)

OnrampProviders ==
    << [provider |-> "stripe", min |-> 100, max |-> 1000000,
        payment_methods |-> {"card", "digital_wallet"}, success_rate |-> 98],
       [provider |-> "circle", min |-> 10000, max |-> 10000000,
        payment_methods |-> {"bank_transfer", "stablecoin"}, success_rate |-> 99],
       [provider |-> "wire_transfer", min |-> 5000000, max |-> 100000000,
        payment_methods |-> {"wire"}, success_rate |-> 95] >>

NoProvider == [provider |-> "none"]

InLimits(amount, p) == amount >= p.min /\ amount <= p.max

\* availableProviders.reduce(...) of selectProvider, over a non-empty sequence
RECURSIVE OnrampBestFit(_, _, _)
OnrampBestFit(best, rest, amount) ==
    IF rest = << >> THEN best
    ELSE LET current == Head(rest)
             next == IF InLimits(amount, current) THEN current
                     ELSE IF InLimits(amount, best) THEN best
                     ELSE IF current.max > best.max THEN current ELSE best
         IN  OnrampBestFit(next, Tail(rest), amount)

\* the first element of a sequence of providers whose limits hold the amount
RECURSIVE FirstInLimits(_, _)
FirstInLimits(ps, amount) ==
    IF ps = << >> THEN NoProvider
    ELSE IF InLimits(amount, Head(ps)) THEN Head(ps)
    ELSE FirstInLimits(Tail(ps), amount)

\* a request without payment_method
NoMethod == "none"

\* OnrampService.selectProvider; NoProvider stands for the thrown error
OnrampSelectProvider(amount, method) ==
    LET available == IF method = NoMethod THEN OnrampProviders
                     ELSE SelectSeq(OnrampProviders, LAMBDA p : method \in p.payment_methods)
    IN  IF available = << >> THEN NoProvider
        ELSE IF FirstInLimits(available, amount) # NoProvider
             THEN FirstInLimits(available, amount)
             ELSE OnrampBestFit(Head(available), Tail(available), amount)

\* processUSDCollection up to its INSERT: the provider of the transaction it
\* creates, or NoProvider when validateRequest, selectProvider or
\* validateAmount throws
OnrampAccepts(amount, currency, method) ==
    LET p == OnrampSelectProvider(amount, method)
    IN  IF amount <= 0 \/ currency # "USD" \/ amount < 100 THEN NoProvider
        ELSE IF p = NoProvider THEN NoProvider
        ELSE IF ~InLimits(amount, p) THEN NoProvider
        ELSE p

----------------------------------------------------------------------------
(* Settlement Provider Adapter: offramp (OfframpService) *)

OfframpProviders ==
    << [provider |-> "local_bank_network", min |-> 1000, max |-> 5000000, success_rate |-> 99,
        supported_currencies |-> {"EUR", "GBP", "CAD", "AUD", "JPY", "CHF", "NOK", "SEK"},
        processing_time |-> "1-2 business days"],
       [provider |-> "swift_wire", min |-> 100000, max |-> 100000000, success_rate |-> 98,
        supported_currencies |-> {"EUR", "GBP", "USD", "CHF"},
        processing_time |-> "2-3 business days"],
       [provider |-> "digital_wallet", min |-> 100, max |-> 1000000, success_rate |-> 97,
        supported_currencies |-> {"INR", "MXN", "BRL"},
        processing_time |-> "Instant to 24 hours"],
       [provider |-> "neobank_partner", min |-> 1000, max |-> 10000000, success_rate |-> 99,
        supported_currencies |-> {"EUR", "GBP", "BRL"},
        processing_time |-> "Same day"],
       [provider |-> "instant_payout", min |-> 100, max |-> 2500000, success_rate |-> 96,
        supported_currencies |-> {"EUR", "GBP", "USD"},
        processing_time |-> "Instant"],
       [provider |-> "crypto_payout", min |-> 1000, max |-> 10000000, success_rate |-> 94,
        supported_currencies |-> {"BTC", "ETH", "USDC", "USDT"},
        processing_time |-> "5-30 minutes"] >>

\* minutes; the tests are String.includes in the order of the code
parseProcessingTime(timeString) ==
    IF timeString \in {"Instant", "Instant to 24 hours"} THEN 0
    ELSE IF timeString = "Same day" THEN 480
    ELSE IF timeString = "1-2 business days" THEN 1440
    ELSE IF timeString = "2-3 business days" THEN 2880
    ELSE IF timeString = "5-30 minutes" THEN 30
    ELSE 1440

\* a reduce that keeps the first suitable provider
C28_mut_OfframpBest(best, rest) == best

\* suitableProviders.reduce(...) of selectProvider
RECURSIVE OfframpBest(_, _)
OfframpBest(best, rest) ==
    IF rest = << >> THEN best
    ELSE LET current == Head(rest)
             next == IF current.success_rate > best.success_rate THEN current
                     ELSE IF current.success_rate = best.success_rate
                          THEN IF parseProcessingTime(current.processing_time)
                                    < parseProcessingTime(best.processing_time)
                               THEN current ELSE best
                          ELSE best
         IN  OfframpBest(next, Tail(rest))

\* OfframpService.selectProvider; NoProvider stands for the thrown error
OfframpSelectProvider(amount, destination_currency) ==
    LET available == SelectSeq(OfframpProviders,
                               LAMBDA p : destination_currency \in p.supported_currencies)
        suitable  == SelectSeq(available, LAMBDA p : InLimits(amount, p))
    IN  IF available = << >> \/ suitable = << >> THEN NoProvider
        ELSE OfframpBest(Head(suitable), Tail(suitable))

\* processLocalCurrencyPayout up to its INSERT (exchange_rate is 1, the
\* recipient name and country are always set by the orchestrator)
OfframpAccepts(amount, destination_currency) ==
    LET p == OfframpSelectProvider(amount, destination_currency)
    IN  IF amount <= 0 THEN NoProvider
        ELSE IF p = NoProvider THEN NoProvider
        ELSE IF ~InLimits(amount, p) THEN NoProvider
        ELSE p

----------------------------------------------------------------------------
(* Requests the model draws *)

IdempotencyKeys == {"k1", "k2"}

\* 200 USD to EUR passes both legs; 200 USD to INR exceeds the limits of the
\* only INR payout provider; 20000 USD exceeds the limits of the only card
\* provider; CHF has no fee schedule; EUR to EUR has equal currencies
RequestBodies ==
    { [source_amount |-> 200,   source_currency |-> "USD",
       destination_currency |-> "EUR", webhook_url |-> TRUE],
      [source_amount |-> 200,   source_currency |-> "USD",
       destination_currency |-> "INR", webhook_url |-> FALSE],
      [source_amount |-> 20000, source_currency |-> "USD",
       destination_currency |-> "EUR", webhook_url |-> FALSE],
      [source_amount |-> 200,   source_currency |-> "USD",
       destination_currency |-> "CHF", webhook_url |-> TRUE],
      [source_amount |-> 200,   source_currency |-> "EUR",
       destination_currency |-> "EUR", webhook_url |-> FALSE] }

CreatePaymentRequests ==
    { [idempotency_key      |-> key,
       user_id              |-> "u1",
       source_amount        |-> body.source_amount,
       source_currency      |-> body.source_currency,
       destination_currency |-> body.destination_currency,
       webhook_url          |-> body.webhook_url] : key \in IdempotencyKeys, body \in RequestBodies }

----------------------------------------------------------------------------
(* Payment Ledger: reads and writes of the tables *)

\* SELECT * FROM payments WHERE id = ?  (0 stands for undefined)
getPaymentById(paymentId) == IF paymentId \in Indices(payments) THEN paymentId ELSE 0

\* a lookup by idempotency key that never finds a payment
C1_mut_getPaymentByIdempotencyKey(key) == 0

\* SELECT * FROM payments WHERE idempotency_key = ?  (0 stands for undefined)
getPaymentByIdempotencyKey(key) ==
    LET found == {p \in Indices(payments) : payments[p].idempotency_key = key}
    IN  IF found = {} THEN 0 ELSE CHOOSE p \in found : \A q \in found : p <= q

\* a payments table without the UNIQUE constraint on idempotency_key
C2_mut_InsertRejected(row) == FALSE

\* does the UNIQUE constraint on idempotency_key reject the INSERT of row
InsertRejected(row) == getPaymentByIdempotencyKey(row.idempotency_key) # 0

\* a row whose total_amount adds the fee without converting it to the
\* source currency
C19_mut_PaymentRow(request, exchangeRate) ==
    LET destinationAmount == request.source_amount * exchangeRate
        total_fee == calculateFees(request.destination_currency, destinationAmount)
    IN  [idempotency_key      |-> request.idempotency_key,
         user_id              |-> request.user_id,
         source_amount        |-> request.source_amount * 100,
         source_currency      |-> request.source_currency,
         destination_amount   |-> destinationAmount,
         destination_currency |-> request.destination_currency,
         exchange_rate        |-> exchangeRate,
         status               |-> PENDING,
         fee_amount           |-> total_fee,
         total_amount         |-> request.source_amount * 100 + total_fee,
         onramp_reference     |-> 0,
         offramp_reference    |-> 0]

\* the row createPayment builds from a request and the rate it obtained
PaymentRow(request, exchangeRate) ==
    LET destinationAmount == request.source_amount * exchangeRate
        total_fee == calculateFees(request.destination_currency, destinationAmount)
    IN  [idempotency_key      |-> request.idempotency_key,
         user_id              |-> request.user_id,
         source_amount        |-> request.source_amount * 100,
         source_currency      |-> request.source_currency,
         destination_amount   |-> destinationAmount,
         destination_currency |-> request.destination_currency,
         exchange_rate        |-> exchangeRate,
         status               |-> PENDING,
         fee_amount           |-> total_fee,
         total_amount         |-> request.source_amount * 100
                                    + (total_fee * 200 + exchangeRate) \div (2 * exchangeRate),
         onramp_reference     |-> 0,
         offramp_reference    |-> 0]

\* the callback URL of a request that has one
CallerUrl == "caller_url"

\* process.env.DEFAULT_WEBHOOK_URL || 'https://webhook.site/test'
DefaultWebhookUrl == "default_url"

\* a row of the webhooks table as scheduleWebhook inserts it for a payload
\* without webhook_url; url is the URL sendWebhookAsync posts it to (an
\* argument of the call, not a column)
WebhookRow(eventType) ==
    [event_type |-> eventType, status |-> WH_PENDING, retry_count |-> 0,
     url |-> DefaultWebhookUrl]

\* the row for a payload with webhook_url
WebhookRowWithUrl(eventType) == [WebhookRow(eventType) EXCEPT !.url = CallerUrl]

\* a row of the transactions table as the provider adapters insert it
TransactionRow(type, amount, currency, provider) ==
    [type |-> type, amount |-> amount, currency |-> currency,
     status |-> TX_PROCESSING, provider |-> provider]

\* the webhooks table after scheduleWebhook(paymentId, eventType, ...)
scheduleWebhook(table, paymentId, eventType) ==
    [table EXCEPT ![paymentId] = Append(@, WebhookRow(eventType))]

getWebhookEventForStatus(status) ==
    CASE status = PROCESSING -> PAYMENT_PROCESSING
      [] status = COMPLETED  -> PAYMENT_COMPLETED
      [] status = FAILED     -> PAYMENT_FAILED
      [] OTHER               -> PAYMENT_PROCESSING

\* UPDATE payments SET status = ? WHERE id = ?
SetStatus(paymentId, status) ==
    /\ payments' = [payments EXCEPT ![paymentId].status = status]
    /\ hist' = [hist EXCEPT ![paymentId] = Append(@, status)]

\* the webhooks table after updatePaymentStatus of the timer-based
\* orchestrator, which schedules the webhook of the status it wrote
StatusWebhook(table, paymentId, status) ==
    scheduleWebhook(table, paymentId, getWebhookEventForStatus(status))

\* updatePaymentStatus of the timer-based orchestrator
updatePaymentStatus(paymentId, status) ==
    /\ SetStatus(paymentId, status)
    /\ webhooks' = StatusWebhook(webhooks, paymentId, status)

----------------------------------------------------------------------------
(* Initial state: empty tables, no call made *)

NoFlow == [pc |-> "none", onramp_tx |-> 0, offramp_tx |-> 0, webhook_url |-> FALSE,
           failed_at |-> "none", success |-> FALSE]

\* no getUserPayments call yet
NoListing == [user_id |-> "none", page |-> 0, limit |-> 0, payments |-> << >>, total |-> 0,
              hasMore |-> FALSE]

\* no selectProvider call yet
NoSelection == [leg |-> "none", amount |-> 0, key |-> "none", provider |-> NoProvider]

\* no calculateFees call yet
NoQuote == [currency |-> "none", amount |-> 0, config |-> << >>, total_fee |-> 0,
            error |-> FALSE]

\* the webhook service idle, the default fee schedules, an empty rate cache,
\* no cancelTransaction call, no poll callback waiting
AuxInit ==
    /\ delivery = << >>
    /\ retries = << >>
    /\ fee_configs = DefaultFeeConfigRows
    /\ quote = NoQuote
    /\ exchange_rates = << >>
    /\ clock = 0
    /\ rateCall = << >>
    /\ txCancels = << >>
    /\ ticks = << >>
    /\ selection = NoSelection
    /\ listing = NoListing

Init ==
    /\ variant \in {"timer", "temporal"}
    /\ payments = << >>
    /\ transactions = << >>
    /\ webhooks = << >>
    /\ txTimer = << >>
    /\ flow = << >>
    /\ hist = << >>
    /\ creates = << >>
    /\ cancels = << >>
    /\ AuxInit

CallsMade == Len(creates) + Len(cancels) + Len(retries)

----------------------------------------------------------------------------
(* createPayment *)

\* a createPayment that returns nothing, instead of throwing, for an
\* unsupported destination currency
C22_mut_CreatePaymentBegin(request) ==
    /\ CallsMade < MaxCalls
    /\ LET existingPayment == getPaymentByIdempotencyKey(request.idempotency_key)
           returned == {c \in Indices(creates) : creates[c].pc = "done"}
           call == [request |-> request, after |-> returned, row |-> << >>,
                    pc |-> "done", result |-> 0, error |-> FALSE, replay |-> FALSE]
       IN  IF existingPayment # 0
           THEN creates' = Append(creates, [call EXCEPT !.result = existingPayment,
                                                        !.replay = TRUE])
           ELSE IF ~isCurrencySupported(request.destination_currency)
           THEN creates' = Append(creates, call)
           ELSE \E exchangeRate \in getExchangeRate(request.source_currency,
                                                    request.destination_currency) :
                   creates' = Append(creates,
                       [call EXCEPT !.pc = "insert",
                                    !.row = << PaymentRow(request, exchangeRate) >>])
    /\ UNCHANGED <<variant, payments, transactions, webhooks, txTimer, flow, hist, cancels>>
    /\ UNCHANGED aux

\* createPayment up to its INSERT: the lookup by idempotency key, the
\* currency check, the rate and the fees.  A call that finds a payment returns
\* it; one with an unsupported destination currency throws.
CreatePaymentBegin(request) ==
    /\ CallsMade < MaxCalls
    /\ LET existingPayment == getPaymentByIdempotencyKey(request.idempotency_key)
           returned == {c \in Indices(creates) : creates[c].pc = "done"}
           call == [request |-> request, after |-> returned, row |-> << >>,
                    pc |-> "done", result |-> 0, error |-> FALSE, replay |-> FALSE]
       IN  IF existingPayment # 0
           THEN creates' = Append(creates, [call EXCEPT !.result = existingPayment,
                                                        !.replay = TRUE])
           ELSE IF ~isCurrencySupported(request.destination_currency)
           THEN creates' = Append(creates, [call EXCEPT !.error = TRUE])
           ELSE \E exchangeRate \in getExchangeRate(request.source_currency,
                                                    request.destination_currency) :
                   creates' = Append(creates,
                       [call EXCEPT !.pc = "insert",
                                    !.row = << PaymentRow(request, exchangeRate) >>])
    /\ UNCHANGED <<variant, payments, transactions, webhooks, txTimer, flow, hist, cancels>>
    /\ UNCHANGED aux

\* timer-based createPayment from its INSERT on: the payment row, the
\* payment.created webhook when a callback URL was given, the start of
\* processPayment, and the return of the created payment
CreatePaymentInsert(c) ==
    /\ variant = "timer"
    /\ c \in Indices(creates)
    /\ creates[c].pc = "insert"
    /\ LET row == creates[c].row[1]
           paymentId == Len(payments) + 1
       IN  IF InsertRejected(row)
           THEN /\ creates' = [creates EXCEPT ![c].pc = "done", ![c].error = TRUE]
                /\ UNCHANGED <<payments, transactions, webhooks, txTimer, flow, hist>>
           ELSE /\ payments' = Append(payments, row)
                /\ hist' = Append(hist, << PENDING >>)
                /\ transactions' = Append(transactions, << >>)
                /\ txTimer' = Append(txTimer, << >>)
                /\ webhooks' = Append(webhooks,
                                  IF creates[c].request.webhook_url
                                  THEN << WebhookRowWithUrl(PAYMENT_CREATED) >> ELSE << >>)
                /\ flow' = Append(flow, [NoFlow EXCEPT !.pc = "start"])
                /\ creates' = [creates EXCEPT ![c].pc = "done", ![c].result = paymentId]
    /\ UNCHANGED <<variant, cancels>>
    /\ UNCHANGED aux

----------------------------------------------------------------------------
(* Timer-based orchestrator: the background flow of one payment *)

FlowAt(p, pc) == p \in Indices(flow) /\ variant = "timer" /\ flow[p].pc = pc

\* processPayment, first statement: updatePaymentStatus(PROCESSING)
ProcessPaymentStart(p) ==
    /\ FlowAt(p, "start")
    /\ updatePaymentStatus(p, PROCESSING)
    /\ flow' = [flow EXCEPT ![p].pc = "collect"]
    /\ UNCHANGED <<variant, transactions, txTimer, creates, cancels>>
    /\ UNCHANGED aux

\* the ledger after a provider adapter inserted a transaction for payment p
\* and armed its resolution timer
InsertTransaction(p, row) ==
    /\ transactions' = [transactions EXCEPT ![p] = Append(@, row)]
    /\ txTimer' = [txTimer EXCEPT ![p] = Append(@, TRUE)]

\* a processPayment that collects the source amount, without the fee
C34_mut_ProcessPaymentOnramp(p) ==
    /\ FlowAt(p, "collect")
    /\ LET payment == payments[p]
           provider == OnrampAccepts(payment.source_amount, payment.source_currency, "card")
           transactionId == Len(transactions[p]) + 1
       IN  IF provider # NoProvider
           THEN /\ InsertTransaction(p, TransactionRow(ONRAMP, payment.source_amount,
                                        payment.source_currency, provider.provider))
                /\ payments' = [payments EXCEPT ![p].onramp_reference = transactionId]
                /\ flow' = [flow EXCEPT ![p].pc = "monitor_onramp",
                                        ![p].onramp_tx = transactionId]
                /\ UNCHANGED <<webhooks, hist>>
           ELSE /\ updatePaymentStatus(p, FAILED)
                /\ flow' = [flow EXCEPT ![p].pc = "done"]
                /\ UNCHANGED <<transactions, txTimer>>
    /\ UNCHANGED <<variant, creates, cancels>>
    /\ UNCHANGED aux

\* processPayment, the rest: the payment is read, processUSDCollection
\* inserts the onramp transaction and arms its resolution timer, the onramp
\* reference is stored and monitorOnrampCompletion starts its interval.  An
\* error thrown by the adapter is caught: updatePaymentStatus(FAILED).
ProcessPaymentOnramp(p) ==
    /\ FlowAt(p, "collect")
    /\ LET payment == payments[p]
           provider == OnrampAccepts(payment.total_amount, payment.source_currency, "card")
           transactionId == Len(transactions[p]) + 1
       IN  IF provider # NoProvider
           THEN /\ InsertTransaction(p, TransactionRow(ONRAMP, payment.total_amount,
                                        payment.source_currency, provider.provider))
                /\ payments' = [payments EXCEPT ![p].onramp_reference = transactionId]
                /\ flow' = [flow EXCEPT ![p].pc = "monitor_onramp",
                                        ![p].onramp_tx = transactionId]
                /\ UNCHANGED <<webhooks, hist>>
           ELSE /\ updatePaymentStatus(p, FAILED)
                /\ flow' = [flow EXCEPT ![p].pc = "done"]
                /\ UNCHANGED <<transactions, txTimer>>
    /\ UNCHANGED <<variant, creates, cancels>>
    /\ UNCHANGED aux

\* a tick of monitorOnrampCompletion that does not wait for the onramp
\* transaction to complete
C32_mut_MonitorOnrampTick(p) ==
    /\ FlowAt(p, "monitor_onramp")
    /\ \/ /\ transactions[p][flow[p].onramp_tx].status # TX_FAILED
          /\ SetStatus(p, ONRAMP_COMPLETE)
          /\ webhooks' = scheduleWebhook(StatusWebhook(webhooks, p, ONRAMP_COMPLETE),
                                         p, ONRAMP_COMPLETED)
          /\ flow' = [flow EXCEPT ![p].pc = "offramp_start"]
       \/ /\ transactions[p][flow[p].onramp_tx].status = TX_FAILED
          /\ updatePaymentStatus(p, FAILED)
          /\ flow' = [flow EXCEPT ![p].pc = "done"]
    /\ UNCHANGED <<variant, transactions, txTimer, creates, cancels>>
    /\ UNCHANGED aux

\* one tick of monitorOnrampCompletion's interval that finds the onramp
\* transaction completed or failed (a tick that finds it processing changes
\* nothing).  On completed: the interval is cleared, the status becomes
\* ONRAMP_COMPLETE and the onramp.completed webhook is scheduled.
MonitorOnrampTick(p) ==
    /\ FlowAt(p, "monitor_onramp")
    /\ LET onrampTransaction == transactions[p][flow[p].onramp_tx]
       IN  \/ /\ onrampTransaction.status = TX_COMPLETED
              /\ SetStatus(p, ONRAMP_COMPLETE)
              /\ webhooks' = scheduleWebhook(StatusWebhook(webhooks, p, ONRAMP_COMPLETE),
                                             p, ONRAMP_COMPLETED)
              /\ flow' = [flow EXCEPT ![p].pc = "offramp_start"]
           \/ /\ onrampTransaction.status = TX_FAILED
              /\ updatePaymentStatus(p, FAILED)
              /\ flow' = [flow EXCEPT ![p].pc = "done"]
    /\ UNCHANGED <<variant, transactions, txTimer, creates, cancels>>
    /\ UNCHANGED aux

\* the 30-minute setTimeout of monitorOnrampCompletion: clearInterval and
\* nothing else.  The resolution timer of the transaction (5 to 60 seconds)
\* and the ticks after it come first, so the timeout finds the interval
\* running only when the transaction is still processing.
MonitorOnrampTimeout(p) ==
    /\ FlowAt(p, "monitor_onramp")
    /\ ~txTimer[p][flow[p].onramp_tx]
    /\ transactions[p][flow[p].onramp_tx].status = TX_PROCESSING
    /\ flow' = [flow EXCEPT ![p].pc = "onramp_timed_out"]
    /\ UNCHANGED <<variant, payments, transactions, webhooks, txTimer, hist, creates, cancels>>
    /\ UNCHANGED aux

\* processOfframp, first statement: updatePaymentStatus(OFFRAMP_PROCESSING)
ProcessOfframpStart(p) ==
    /\ FlowAt(p, "offramp_start")
    /\ updatePaymentStatus(p, OFFRAMP_PROCESSING)
    /\ flow' = [flow EXCEPT ![p].pc = "payout"]
    /\ UNCHANGED <<variant, transactions, txTimer, creates, cancels>>
    /\ UNCHANGED aux

\* processOfframp, the rest: processLocalCurrencyPayout inserts the offramp
\* transaction and arms its resolution timer, the offramp reference is
\* stored and monitorOfframpCompletion starts its interval.  An error thrown
\* by the adapter is caught: updatePaymentStatus(FAILED).
ProcessOfframpPayout(p) ==
    /\ FlowAt(p, "payout")
    /\ LET payment == payments[p]
           provider == OfframpAccepts(payment.destination_amount, payment.destination_currency)
           transactionId == Len(transactions[p]) + 1
       IN  IF provider # NoProvider
           THEN /\ InsertTransaction(p, TransactionRow(OFFRAMP, payment.destination_amount,
                                        payment.destination_currency, provider.provider))
                /\ payments' = [payments EXCEPT ![p].offramp_reference = transactionId]
                /\ flow' = [flow EXCEPT ![p].pc = "monitor_offramp",
                                        ![p].offramp_tx = transactionId]
                /\ UNCHANGED <<webhooks, hist>>
           ELSE /\ updatePaymentStatus(p, FAILED)
                /\ flow' = [flow EXCEPT ![p].pc = "done"]
                /\ UNCHANGED <<transactions, txTimer>>
    /\ UNCHANGED <<variant, creates, cancels>>
    /\ UNCHANGED aux

\* a tick of monitorOfframpCompletion that ignores a completed transaction
C9_mut_MonitorOfframpTick(p) ==
    /\ FlowAt(p, "monitor_offramp")
    /\ transactions[p][flow[p].offramp_tx].status = TX_FAILED
    /\ updatePaymentStatus(p, FAILED)
    /\ flow' = [flow EXCEPT ![p].pc = "done"]
    /\ UNCHANGED <<variant, transactions, txTimer, creates, cancels>>
    /\ UNCHANGED aux

\* one tick of monitorOfframpCompletion's interval that finds the offramp
\* transaction completed or failed.  On completed: the status becomes
\* COMPLETED and a payment.completed webhook is scheduled explicitly, after
\* the one updatePaymentStatus schedules.
MonitorOfframpTick(p) ==
    /\ FlowAt(p, "monitor_offramp")
    /\ LET offrampTransaction == transactions[p][flow[p].offramp_tx]
       IN  \/ /\ offrampTransaction.status = TX_COMPLETED
              /\ SetStatus(p, COMPLETED)
              /\ webhooks' = scheduleWebhook(StatusWebhook(webhooks, p, COMPLETED),
                                             p, PAYMENT_COMPLETED)
              /\ flow' = [flow EXCEPT ![p].pc = "done"]
           \/ /\ offrampTransaction.status = TX_FAILED
              /\ updatePaymentStatus(p, FAILED)
              /\ flow' = [flow EXCEPT ![p].pc = "done"]
    /\ UNCHANGED <<variant, transactions, txTimer, creates, cancels>>
    /\ UNCHANGED aux

\* the 2-hour setTimeout of monitorOfframpCompletion: clearInterval only
MonitorOfframpTimeout(p) ==
    /\ FlowAt(p, "monitor_offramp")
    /\ ~txTimer[p][flow[p].offramp_tx]
    /\ transactions[p][flow[p].offramp_tx].status = TX_PROCESSING
    /\ flow' = [flow EXCEPT ![p].pc = "offramp_timed_out"]
    /\ UNCHANGED <<variant, payments, transactions, webhooks, txTimer, hist, creates, cancels>>
    /\ UNCHANGED aux

----------------------------------------------------------------------------
(* Settlement Provider Adapter: asynchronous resolution *)

\* the setTimeout callback of simulateAsyncProcessing: the transaction
\* becomes completed or failed (the draw against the success rate), whatever
\* its status is; when the UPDATE is rejected the error is logged and the
\* transaction keeps its status
SimulateAsyncProcessing(p, t) ==
    /\ p \in Indices(transactions)
    /\ t \in Indices(transactions[p])
    /\ txTimer[p][t]
    /\ txTimer' = [txTimer EXCEPT ![p][t] = FALSE]
    /\ \E outcome \in {TX_COMPLETED, TX_FAILED, "error"} :
          transactions' = IF outcome = "error" THEN transactions
                          ELSE [transactions EXCEPT ![p][t].status = outcome]
    /\ UNCHANGED <<variant, payments, webhooks, flow, hist, creates, cancels>>
    /\ UNCHANGED aux

----------------------------------------------------------------------------
(* cancelPayment *)

\* a guard of cancelPayment that only refuses a payment that does not exist
C6_mut_CancelRefused(paymentId) == getPaymentById(paymentId) = 0

\* the guard of cancelPayment on the row read (0: no such payment)
CancelRefused(paymentId) ==
    \/ getPaymentById(paymentId) = 0
    \/ payments[paymentId].status = COMPLETED
    \/ payments[paymentId].status = FAILED

\* cancelPayment up to its guard: the payment is read; the call returns
\* false when there is none or it is COMPLETED or FAILED
CancelPaymentRead(paymentId) ==
    /\ CallsMade < MaxCalls
    /\ paymentId \in 1..(Len(payments) + 1)
    /\ LET call == [payment_id |-> paymentId,
                    seen |-> IF getPaymentById(paymentId) = 0 THEN "none"
                             ELSE payments[paymentId].status,
                    pc |-> "write", result |-> FALSE, workflow_error |-> FALSE]
       IN  cancels' = Append(cancels, IF CancelRefused(paymentId)
                                      THEN [call EXCEPT !.pc = "done"] ELSE call)
    /\ UNCHANGED <<variant, payments, transactions, webhooks, txTimer, flow, hist, creates>>
    /\ UNCHANGED aux

\* timer-based cancelPayment after its guard: updatePaymentStatus(CANCELLED)
CancelPaymentWrite(c) ==
    /\ variant = "timer"
    /\ c \in Indices(cancels)
    /\ cancels[c].pc = "write"
    /\ updatePaymentStatus(cancels[c].payment_id, CANCELLED)
    /\ cancels' = [cancels EXCEPT ![c].pc = "done", ![c].result = TRUE]
    /\ UNCHANGED <<variant, transactions, txTimer, flow, creates>>
    /\ UNCHANGED aux

----------------------------------------------------------------------------
(* Temporal-backed orchestrator *)

\* Temporal-backed createPayment from its INSERT on: the payment row, then
\* startPaymentWorkflow; when the start throws, the status becomes FAILED
\* (a bare UPDATE) and the call throws
TemporalCreatePaymentInsert(c) ==
    /\ variant = "temporal"
    /\ c \in Indices(creates)
    /\ creates[c].pc = "insert"
    /\ LET row == creates[c].row[1]
           paymentId == Len(payments) + 1
       IN  IF InsertRejected(row)
           THEN /\ creates' = [creates EXCEPT ![c].pc = "done", ![c].error = TRUE]
                /\ UNCHANGED <<payments, transactions, webhooks, txTimer, flow, hist>>
           ELSE /\ transactions' = Append(transactions, << >>)
                /\ txTimer' = Append(txTimer, << >>)
                /\ webhooks' = Append(webhooks, << >>)
                /\ \E started \in BOOLEAN :
                      IF started
                      THEN /\ payments' = Append(payments, row)
                           /\ hist' = Append(hist, << PENDING >>)
                           /\ flow' = Append(flow,
                                 [NoFlow EXCEPT !.pc = "validate",
                                                !.webhook_url = creates[c].request.webhook_url])
                           /\ creates' = [creates EXCEPT ![c].pc = "done",
                                                         ![c].result = paymentId]
                      ELSE /\ payments' = Append(payments, [row EXCEPT !.status = FAILED])
                           /\ hist' = Append(hist, << PENDING, FAILED >>)
                           /\ flow' = Append(flow, NoFlow)
                           /\ creates' = [creates EXCEPT ![c].pc = "done", ![c].error = TRUE]
    /\ UNCHANGED <<variant, cancels>>
    /\ UNCHANGED aux

WorkflowAt(p, pc) == p \in Indices(flow) /\ variant = "temporal" /\ flow[p].pc = pc

\* does the activity validatePaymentRequest throw for the input of payment p
validatePaymentRequestThrows(p) ==
    \/ getPaymentByIdempotencyKey(payments[p].idempotency_key) # 0
    \/ ~isCurrencySupported(payments[p].destination_currency)
    \/ payments[p].source_amount <= 0
    \/ payments[p].source_currency = payments[p].destination_currency

\* paymentWorkflow, step 1.  An error of the activity reaches the catch
\* block of the workflow (the retries of the activity before that repeat the
\* same reads and change nothing).
WorkflowValidate(p) ==
    /\ WorkflowAt(p, "validate")
    /\ flow' = IF validatePaymentRequestThrows(p)
               THEN [flow EXCEPT ![p].pc = "catch", ![p].failed_at = "validate"]
               ELSE [flow EXCEPT ![p].pc = "calculate"]
    /\ UNCHANGED <<variant, payments, transactions, webhooks, txTimer, hist, creates, cancels>>
    /\ UNCHANGED aux

\* paymentWorkflow, catch block: handlePaymentFailure sets FAILED (a bare
\* UPDATE) and, when a callback URL was given, schedules payment.failed
WorkflowHandleFailure(p) ==
    /\ WorkflowAt(p, "catch")
    /\ SetStatus(p, FAILED)
    /\ webhooks' = IF flow[p].webhook_url
                   THEN [webhooks EXCEPT ![p] = Append(@, WebhookRowWithUrl(PAYMENT_FAILED))]
                   ELSE webhooks
    /\ flow' = [flow EXCEPT ![p].pc = "finally"]
    /\ UNCHANGED <<variant, transactions, txTimer, creates, cancels>>
    /\ UNCHANGED aux

\* paymentWorkflow, finally block: cleanupPayment only logs; the workflow
\* then returns the result of the block it left (success: false after catch)
WorkflowCleanup(p) ==
    /\ WorkflowAt(p, "finally")
    /\ flow' = [flow EXCEPT ![p].pc = "done", ![p].success = (flow[p].failed_at = "none")]
    /\ UNCHANGED <<variant, payments, transactions, webhooks, txTimer, hist, creates, cancels>>
    /\ UNCHANGED aux

\* is the workflow of payment p open (started and not yet closed)
WorkflowOpen(p) == flow[p].pc \in {"validate", "calculate", "catch", "finally"}

\* Temporal-backed cancelPayment after its guard: cancelWorkflow, then the
\* status becomes CANCELLED (a bare UPDATE); when cancelWorkflow throws
\* (no open workflow, or the Temporal server not reached) the call returns
\* false.  A cancelled workflow starts no further activity.
TemporalCancelPaymentWrite(c) ==
    /\ variant = "temporal"
    /\ c \in Indices(cancels)
    /\ cancels[c].pc = "write"
    /\ LET p == cancels[c].payment_id
       IN  \/ /\ WorkflowOpen(p)
              /\ flow' = [flow EXCEPT ![p].pc = "cancelled"]
              /\ SetStatus(p, CANCELLED)
              /\ cancels' = [cancels EXCEPT ![c].pc = "done", ![c].result = TRUE]
           \/ /\ cancels' = [cancels EXCEPT ![c].pc = "done", ![c].workflow_error = TRUE]
              /\ UNCHANGED <<payments, flow, hist>>
    /\ UNCHANGED <<variant, transactions, webhooks, txTimer, creates>>
    /\ UNCHANGED aux

----------------------------------------------------------------------------
(* Specification *)

CallIds == 1..MaxCalls

\* a payment has at most one transaction per leg
TransactionIds == 1..2

Next ==
    \/ \E request \in CreatePaymentRequests : CreatePaymentBegin(request)
    \/ \E c \in CallIds : CreatePaymentInsert(c)
    \/ \E p \in CallIds : ProcessPaymentStart(p)
    \/ \E p \in CallIds : ProcessPaymentOnramp(p)
    \/ \E p \in CallIds : MonitorOnrampTick(p)
    \/ \E p \in CallIds : MonitorOnrampTimeout(p)
    \/ \E p \in CallIds : ProcessOfframpStart(p)
    \/ \E p \in CallIds : ProcessOfframpPayout(p)
    \/ \E p \in CallIds : MonitorOfframpTick(p)
    \/ \E p \in CallIds : MonitorOfframpTimeout(p)
    \/ \E p \in CallIds, t \in TransactionIds : SimulateAsyncProcessing(p, t)
    \/ \E p \in 1..(MaxCalls + 1) : CancelPaymentRead(p)
    \/ \E c \in CallIds : CancelPaymentWrite(c)
    \/ \E c \in CallIds : TemporalCreatePaymentInsert(c)
    \/ \E p \in CallIds : WorkflowValidate(p)
    \/ \E p \in CallIds : WorkflowHandleFailure(p)
    \/ \E p \in CallIds : WorkflowCleanup(p)
    \/ \E c \in CallIds : TemporalCancelPaymentWrite(c)

Spec == Init /\ [][Next]_vars

\* the runtime keeps running what the program scheduled: the continuation of
\* an async function, the callback of a setInterval and that of a setTimeout
Fairness ==
    \A p \in CallIds :
        /\ WF_vars(ProcessPaymentStart(p))
        /\ WF_vars(ProcessPaymentOnramp(p))
        /\ WF_vars(MonitorOnrampTick(p))
        /\ WF_vars(ProcessOfframpStart(p))
        /\ WF_vars(ProcessOfframpPayout(p))
        /\ WF_vars(MonitorOfframpTick(p))
        /\ \A t \in TransactionIds : WF_vars(SimulateAsyncProcessing(p, t))

FairSpec == Spec /\ Fairness

\* fair scheduling of everything the program has started: the steps of the
\* flow and of the workflow, the polls, the resolution timers, the caps of
\* the polls, and the calls under way
TimerFairness ==
    /\ Fairness
    /\ \A p \in CallIds :
        /\ WF_vars(MonitorOnrampTimeout(p))
        /\ WF_vars(MonitorOfframpTimeout(p))
        /\ WF_vars(WorkflowValidate(p))
        /\ WF_vars(WorkflowHandleFailure(p))
        /\ WF_vars(WorkflowCleanup(p))
    /\ \A c \in CallIds :
        /\ WF_vars(CreatePaymentInsert(c))
        /\ WF_vars(TemporalCreatePaymentInsert(c))
        /\ WF_vars(CancelPaymentWrite(c))
        /\ WF_vars(TemporalCancelPaymentWrite(c))

TimerSpec == Spec /\ TimerFairness

----------------------------------------------------------------------------
(* Vocabulary of the properties *)

Terminal == {COMPLETED, FAILED, CANCELLED}

StatusOrder == << PENDING, PROCESSING, ONRAMP_COMPLETE, OFFRAMP_PROCESSING, COMPLETED >>

Rank(status) == CHOOSE i \in Indices(StatusOrder) : StatusOrder[i] = status

TransactionsOfType(p, type) ==
    {t \in Indices(transactions[p]) : transactions[p][t].type = type}

PaymentsWithKey(key) == {p \in Indices(payments) : payments[p].idempotency_key = key}

CallsWithKey(key) == {c \in Indices(creates) : creates[c].request.idempotency_key = key}

\* the cancelPayment calls on payment p
CancelCalls(p) == {c \in Indices(cancels) : cancels[c].payment_id = p}

\* has a cancelPayment(p) returned true
CancelReturnedTrue(p) ==
    \E c \in CancelCalls(p) : cancels[c].pc = "done" /\ cancels[c].result

----------------------------------------------------------------------------
(* Properties *)

\* a createPayment call that starts in this step after a call with the same
\* key returned a payment: it returns that payment and writes nothing
ReplayStep ==
    Len(creates') > Len(creates) =>
        LET call == creates'[Len(creates')]
        IN  \A d \in call.after :
               (/\ creates[d].request.idempotency_key = call.request.idempotency_key
                /\ creates[d].result # 0)
               => /\ call.pc = "done"
                  /\ ~call.error
                  /\ call.result = creates[d].result
                  /\ UNCHANGED <<payments, transactions, webhooks>>

\* C1: a createPayment call that starts after a call with the same
\* idempotency key has returned a Payment returns the id of that Payment,
\* changes no stored field of it and creates no payment row, no settlement
\* transaction and no webhook delivery, whatever its other fields are.
C1_IdempotentReplay == [][ReplayStep]_vars

\* a second call with the key and another body has returned the first payment
C1_Witness ==
    \E c \in Indices(creates) : \E d \in creates[c].after :
        /\ creates[c].request.idempotency_key = creates[d].request.idempotency_key
        /\ creates[c].request # creates[d].request
        /\ creates[c].pc = "done"
        /\ creates[c].replay
        /\ creates[d].result # 0
        /\ creates[c].result = creates[d].result

\* C2: whatever the interleaving of two createPayment calls with the same
\* idempotency key, there is never more than one Payment row with that key
\* nor more than one onramp transaction for it, and once both calls are over
\* (one of them at least for a supported currency) there is exactly one row.
C2_OnePaymentPerKey ==
    \A key \in IdempotencyKeys :
        LET rows == PaymentsWithKey(key)
            calls == CallsWithKey(key)
            onramps == UNION {{<<p, t>> : t \in TransactionsOfType(p, ONRAMP)} : p \in rows}
        IN  /\ Cardinality(rows) <= 1
            /\ Cardinality(onramps) <= 1
            /\ (/\ Cardinality(calls) >= 2
                /\ \A c \in calls : creates[c].pc = "done"
                /\ \E c \in calls : isCurrencySupported(creates[c].request.destination_currency))
               => Cardinality(rows) = 1

\* both calls ran their lookup before either inserted: one created the
\* payment, whose onramp transaction exists, the INSERT of the other was
\* rejected
C2_Witness ==
    \E c, d \in Indices(creates) :
        /\ c # d
        /\ creates[c].request.idempotency_key = creates[d].request.idempotency_key
        /\ creates[c].pc = "done" /\ creates[d].pc = "done"
        /\ creates[c].row # << >> /\ creates[d].row # << >>
        /\ creates[c].error
        /\ creates[d].result # 0
        /\ TransactionsOfType(creates[d].result, ONRAMP) # {}

\* may status b be written after status a
Follows(a, b) ==
    /\ a \notin {FAILED, CANCELLED}
    /\ b \in {FAILED, CANCELLED} \/ Rank(b) > Rank(a)

\* C3: the statuses a Payment takes over time are a subsequence of PENDING,
\* PROCESSING, ONRAMP_COMPLETE, OFFRAMP_PROCESSING, COMPLETED, possibly
\* diverging once to FAILED or CANCELLED; a status is never followed by an
\* earlier one.
C3_MonotonicStatus ==
    \A p \in Indices(hist) :
        \A i \in 1..(Len(hist[p]) - 1) : Follows(hist[p][i], hist[p][i + 1])

\* C4: once the status of a Payment is COMPLETED, FAILED or CANCELLED, no
\* step changes it to a different value.
C4_TerminalIsFinal ==
    [][\A p \in Indices(payments) :
          payments[p].status \in Terminal => payments'[p].status = payments[p].status]_vars

\* C5: after cancelPayment(p) returned true, a step of a polling loop of p
\* changes no field of p, creates no settlement transaction for p and
\* schedules no webhook for p.
C5_PollsStopAfterCancel ==
    [][\A p \in Indices(payments) :
          (/\ CancelReturnedTrue(p)
           /\ flow[p].pc \in {"monitor_onramp", "monitor_offramp"}
           /\ flow'[p] # flow[p])
          => /\ payments'[p] = payments[p]
             /\ Len(transactions'[p]) = Len(transactions[p])
             /\ webhooks'[p] = webhooks[p]]_vars

\* does cancelPayment call c return in this step
CancelReturns(c) ==
    /\ cancels'[c].pc = "done"
    /\ c \in Indices(cancels) => cancels[c].pc # "done"

\* the status cancelPayment call c read makes it refuse
SawRefused(c) == cancels'[c].seen \in {"none", COMPLETED, FAILED}

\* cancelPayment call c returns false in this step and wrote nothing
ReturnsFalseUnchanged(c) ==
    /\ ~cancels'[c].result
    /\ UNCHANGED <<payments, transactions, webhooks>>

\* cancelPayment call c returns true in this step and wrote CANCELLED
ReturnsTrueCancelled(c) ==
    /\ cancels'[c].result
    /\ payments'[cancels'[c].payment_id].status = CANCELLED

Quiescent(p) ==
    /\ flow[p].pc = "done"
    /\ \A c \in CancelCalls(p) : cancels[c].pc = "done"

\* C7: when the onramp transaction of a Payment has resolved to failed, the
\* Payment ends in FAILED and has no offramp transaction.
C7_OnrampFailureEndsFailed ==
    \A p \in Indices(payments) :
        (/\ flow[p].onramp_tx # 0
         /\ transactions[p][flow[p].onramp_tx].status = TX_FAILED)
        => /\ TransactionsOfType(p, OFFRAMP) = {}
           /\ Quiescent(p) => payments[p].status = FAILED

\* C8: when the 30-minute cap of the onramp poll elapses with the onramp
\* transaction still processing, the Payment is FAILED and has no offramp
\* transaction.
C8_OnrampTimeoutFails ==
    \A p \in Indices(payments) :
        flow[p].pc = "onramp_timed_out"
        => /\ payments[p].status = FAILED
           /\ TransactionsOfType(p, OFFRAMP) = {}

\* payment p of the timer-based orchestrator has both its transactions
\* completed and no cancelPayment call was made on it
BothLegsCompleted(p) ==
    /\ variant = "timer"
    /\ p \in Indices(payments)
    /\ flow[p].onramp_tx # 0
    /\ flow[p].offramp_tx # 0
    /\ transactions[p][flow[p].onramp_tx].status = TX_COMPLETED
    /\ transactions[p][flow[p].offramp_tx].status = TX_COMPLETED
    /\ CancelCalls(p) = {}

\* payment p is COMPLETED after the statuses of the flow in their order and
\* has a payment.completed webhook
CompletedInOrder(p) ==
    /\ p \in Indices(payments)
    /\ payments[p].status = COMPLETED
    /\ hist[p] = StatusOrder
    /\ \E w \in Indices(webhooks[p]) : webhooks[p][w].event_type = PAYMENT_COMPLETED

ValidRequest(p) ==
    /\ isCurrencySupported(payments[p].destination_currency)
    /\ payments[p].source_amount > 0
    /\ payments[p].source_currency # payments[p].destination_currency

\* C10: the paymentWorkflow started by the Temporal-backed createPayment for
\* a valid request passes its validation step.
C10_WorkflowPassesValidation ==
    \A p \in Indices(payments) :
        (variant = "temporal" /\ flow[p].pc # "none" /\ ValidRequest(p))
        => flow[p].failed_at # "validate"

\* C11: under fair scheduling of the timers, every created Payment
\* eventually is COMPLETED, FAILED or CANCELLED, also when a settlement
\* transaction stays in processing forever.
C11_EventuallyTerminal ==
    \A p \in CallIds :
        (p \in Indices(payments))
            ~> (p \in Indices(payments) /\ payments[p].status \in Terminal)
----------------------------------------------------------------------------
(* Webhook Notifier (WebhookService) *)

\* maxRetries
MaxRetries == 3

\* the webhooks scheduled so far, as (payment, position) pairs
WebhookIds == UNION {{<<p, w>> : w \in Indices(webhooks[p])} : p \in Indices(webhooks)}

\* scheduleWebhook starts the first attempt without awaiting it: a webhook
\* row nothing was recorded for has one HTTP request in flight and no timer
FirstAttempt == [inflight |-> 1, timers |-> 0]

DeliveryOf(p, w) == IF <<p, w>> \in DOMAIN delivery THEN delivery[<<p, w>>] ELSE FirstAttempt

\* the delivery state after that of webhook (p, w) became d
SetDelivery(p, w, d) ==
    [k \in DOMAIN delivery \cup {<<p, w>>} |-> IF k = <<p, w>> THEN d ELSE delivery[k]]

\* failed delivery attempts recorded on the rows
FailuresOf(ids) ==
    LET RECURSIVE Sum(_)
        Sum(rest) == IF rest = {} THEN 0
                     ELSE LET k == CHOOSE k \in rest : TRUE
                          IN  webhooks[k[1]][k[2]].retry_count + Sum(rest \ {k})
    IN  Sum(ids)

\* sendWebhookAsync, the request answered 2xx: the row becomes sent
SendWebhookSucceeds(p, w) ==
    /\ <<p, w>> \in WebhookIds
    /\ DeliveryOf(p, w).inflight > 0
    /\ webhooks' = [webhooks EXCEPT ![p][w].status = WH_SENT]
    /\ delivery' = SetDelivery(p, w, [DeliveryOf(p, w) EXCEPT !.inflight = @ - 1])
    /\ UNCHANGED <<ledger_but_webhooks, retries, fee_configs, quote, exchange_rates, clock,
                   rateCall, txCancels, ticks, selection, listing>>

\* a handleWebhookFailure that fails the payment when the retries are used up
C16_mut_SendWebhookFails(p, w) ==
    /\ <<p, w>> \in WebhookIds
    /\ DeliveryOf(p, w).inflight > 0
    /\ FailuresOf(WebhookIds) < MaxFailures
    /\ webhooks' = [webhooks EXCEPT ![p][w].status = WH_FAILED,
                                    ![p][w].retry_count = @ + 1]
    /\ delivery' = SetDelivery(p, w, [DeliveryOf(p, w) EXCEPT !.inflight = @ - 1])
    /\ SetStatus(p, FAILED)
    /\ UNCHANGED <<variant, transactions, txTimer, flow, creates, cancels>>
    /\ UNCHANGED <<retries, fee_configs, quote, exchange_rates, clock, rateCall, txCancels,
                   ticks, selection, listing>>

\* sendWebhookAsync, the request failed (an answer outside 2xx, a timeout, a
\* network error), and handleWebhookFailure: the retry count of the row is
\* incremented and stored, the row stays pending and a retry timer is armed
\* while the count is at most maxRetries, else the row becomes failed
SendWebhookFails(p, w) ==
    /\ <<p, w>> \in WebhookIds
    /\ DeliveryOf(p, w).inflight > 0
    /\ FailuresOf(WebhookIds) < MaxFailures
    /\ LET retryCount == webhooks[p][w].retry_count + 1
       IN  /\ webhooks' = [webhooks EXCEPT
                              ![p][w].status = IF retryCount <= MaxRetries
                                               THEN WH_PENDING ELSE WH_FAILED,
                              ![p][w].retry_count = retryCount]
           /\ delivery' = SetDelivery(p, w,
                              [inflight |-> DeliveryOf(p, w).inflight - 1,
                               timers   |-> DeliveryOf(p, w).timers
                                              + (IF retryCount <= MaxRetries THEN 1 ELSE 0)])
    /\ UNCHANGED <<ledger_but_webhooks, retries, fee_configs, quote, exchange_rates, clock,
                   rateCall, txCancels, ticks, selection, listing>>

\* a retry timer that is lost: it fires without a new attempt
C37_mut_RetryTimerFires(p, w) ==
    /\ <<p, w>> \in WebhookIds
    /\ DeliveryOf(p, w).timers > 0
    /\ delivery' = SetDelivery(p, w, [inflight |-> DeliveryOf(p, w).inflight,
                                      timers   |-> DeliveryOf(p, w).timers - 1])
    /\ UNCHANGED <<ledger, retries, fee_configs, quote, exchange_rates, clock, rateCall,
                   txCancels, ticks, selection, listing>>

\* the retry timer armed by handleWebhookFailure fires: sendWebhookAsync
\* again, whatever the row says
RetryTimerFires(p, w) ==
    /\ <<p, w>> \in WebhookIds
    /\ DeliveryOf(p, w).timers > 0
    /\ delivery' = SetDelivery(p, w, [inflight |-> DeliveryOf(p, w).inflight + 1,
                                      timers   |-> DeliveryOf(p, w).timers - 1])
    /\ UNCHANGED <<ledger, retries, fee_configs, quote, exchange_rates, clock, rateCall,
                   txCancels, ticks, selection, listing>>

\* retryWebhook: false when there is no such webhook or it is sent; else
\* the row becomes pending with retry count 0 and sendWebhookAsync is called
RetryWebhook(p, w) ==
    /\ CallsMade < MaxCalls
    /\ p \in Indices(webhooks)
    /\ w \in 1..(Len(webhooks[p]) + 1)
    /\ IF <<p, w>> \notin WebhookIds \/ webhooks[p][w].status = WH_SENT
       THEN /\ retries' = Append(retries, [webhook |-> <<p, w>>, result |-> FALSE])
            /\ UNCHANGED <<webhooks, delivery>>
       ELSE /\ retries' = Append(retries, [webhook |-> <<p, w>>, result |-> TRUE])
            /\ webhooks' = [webhooks EXCEPT ![p][w].status = WH_PENDING,
                                            ![p][w].retry_count = 0]
            /\ delivery' = SetDelivery(p, w, [DeliveryOf(p, w) EXCEPT !.inflight = @ + 1])
    /\ UNCHANGED <<ledger_but_webhooks, fee_configs, quote, exchange_rates, clock, rateCall,
                   txCancels, ticks, selection, listing>>

\* the request of the webhook scenarios: no callback URL, and an amount the
\* card provider rejects, so that the flow schedules payment.processing and
\* then payment.failed
WebhookScenarioRequests ==
    {request \in CreatePaymentRequests :
        /\ request.idempotency_key = "k1"
        /\ ~request.webhook_url
        /\ request.source_currency = "USD"
        /\ request.destination_currency = "EUR"
        /\ OnrampAccepts(request.source_amount * 100, request.source_currency, "card") = NoProvider}

\* the state in which the timer-based createPayment(request) has returned
\* the payment it created
WebhookInit ==
    \E request \in WebhookScenarioRequests :
        \E exchangeRate \in getExchangeRate(request.source_currency,
                                            request.destination_currency) :
            /\ variant = "timer"
            /\ payments = << PaymentRow(request, exchangeRate) >>
            /\ hist = << << PENDING >> >>
            /\ transactions = << << >> >>
            /\ txTimer = << << >> >>
            /\ webhooks = << << >> >>
            /\ flow = << [NoFlow EXCEPT !.pc = "start"] >>
            /\ creates = << [request |-> request, after |-> {},
                             row |-> << PaymentRow(request, exchangeRate) >>,
                             pc |-> "done", result |-> 1, error |-> FALSE,
                             replay |-> FALSE] >>
            /\ cancels = << >>
            /\ AuxInit

\* the positions of the webhooks of a payment: the flow schedules at most
\* seven, and retryWebhook may name one that does not exist
WebhookPositions == 1..8

\* the flow of the payment, the deliveries of its webhooks and retryWebhook
WebhookNext ==
    \/ \E p \in CallIds : ProcessPaymentStart(p)
    \/ \E p \in CallIds : ProcessPaymentOnramp(p)
    \/ \E p \in CallIds, w \in WebhookPositions : SendWebhookSucceeds(p, w)
    \/ \E p \in CallIds, w \in WebhookPositions : SendWebhookFails(p, w)
    \/ \E p \in CallIds, w \in WebhookPositions : RetryTimerFires(p, w)
    \/ \E p \in CallIds, w \in WebhookPositions : RetryWebhook(p, w)

WebhookSpec == WebhookInit /\ [][WebhookNext]_vars

\* every HTTP request ends, answered or by its 10-second timeout, and the
\* runtime fires the retry timers that were armed
WebhookFairness ==
    \A p \in CallIds, w \in WebhookPositions :
        /\ WF_vars(SendWebhookSucceeds(p, w) \/ SendWebhookFails(p, w))
        /\ WF_vars(RetryTimerFires(p, w))

FairWebhookSpec == WebhookSpec /\ WebhookFairness

----------------------------------------------------------------------------
(* Properties of the Webhook Notifier *)

\* the row of webhook k
WebhookOf(k) == webhooks[k[1]][k[2]]

\* a delivery attempt for webhook k starts in this step
AttemptStarts(k) == DeliveryOf(k[1], k[2])'.inflight > DeliveryOf(k[1], k[2]).inflight

\* the webhooks retryWebhook was called for
Retried == {retries[c].webhook : c \in Indices(retries)}

\* C12: every Webhook Delivery record has retry_count at most 3, the maximum
\* number of retries.
C12_RetryCountBounded ==
    \A k \in WebhookIds : WebhookOf(k).retry_count <= MaxRetries

\* C13: once the status of a Webhook Delivery is sent, its status does not
\* change and no delivery attempt starts for it.
C13_SentIsFinal ==
    [][\A k \in WebhookIds :
          WebhookOf(k).status = WH_SENT
          => /\ WebhookOf(k)'.status = WH_SENT
             /\ ~AttemptStarts(k)]_vars

\* C14: a webhook all of whose attempts failed has, after three failed
\* attempts, the status failed, and no attempt is in flight or scheduled
\* for it.
C14_ThreeFailuresExhaust ==
    \A k \in WebhookIds \ Retried :
        WebhookOf(k).retry_count >= 3
        => /\ WebhookOf(k).status = WH_FAILED
           /\ DeliveryOf(k[1], k[2]) = [inflight |-> 0, timers |-> 0]

\* C15: once the status of a Webhook Delivery is failed, its status and
\* retry count do not change and no delivery attempt starts for it.
C15_FailedIsFinal ==
    [][\A k \in WebhookIds :
          WebhookOf(k).status = WH_FAILED
          => /\ WebhookOf(k)' = WebhookOf(k)
             /\ ~AttemptStarts(k)]_vars

\* a delivery attempt fails in this step: a retry count goes up
AttemptFails == \E k \in WebhookIds : WebhookOf(k)'.retry_count > WebhookOf(k).retry_count

\* C16: a failed delivery attempt, the one that marks the delivery failed
\* included, changes no field of any Payment and no settlement transaction.
C16_FailureLeavesPayment ==
    [][AttemptFails => UNCHANGED <<payments, transactions, txTimer, hist>>]_vars

\* the payment.processing webhook has failed for good while its payment is
\* still PROCESSING
C16_Witness ==
    \E k \in WebhookIds :
        /\ WebhookOf(k).status = WH_FAILED
        /\ WebhookOf(k).retry_count > MaxRetries
        /\ payments[k[1]].status = PROCESSING
        /\ hist[k[1]] = << PENDING, PROCESSING >>

\* C17: a webhook of a Payment is delivered only when the webhooks of the
\* earlier transitions of that Payment have been delivered.
C17_DeliveredInOrder ==
    [][\A k \in WebhookIds :
          (WebhookOf(k)'.status = WH_SENT /\ WebhookOf(k).status # WH_SENT)
          => \A w \in 1..(k[2] - 1) : webhooks[k[1]][w].status = WH_SENT]_vars

----------------------------------------------------------------------------
(* Fee Calculator: updateFeeConfig and calculateFees on the table *)

\* calls of updateFeeConfig the model makes
MaxFeeUpdates == 1

\* the schedules updateFeeConfig is called with: it stores its arguments as
\* they are, whatever their relation; maximumFee omitted is stored as NULL (0)
FeeSchedules ==
    [base_fee : {0, 250}, percentage_fee : {0, 299}, minimum_fee : {100, 1000},
     maximum_fee : {0, 500, 5000}]

FeeUpdateCurrencies == {"EUR", "CHF"}

QuoteCurrencies == {"EUR", "INR", "CHF"}

\* destination amounts in cents
QuoteAmounts == {0, 16800, 2000000}

\* CURRENT_TIMESTAMP of the latest row
LastCreatedAt ==
    CHOOSE t \in {fee_configs[i].created_at : i \in Indices(fee_configs)} :
        \A i \in Indices(fee_configs) : fee_configs[i].created_at <= t

\* updateFeeConfig: INSERT OR REPLACE with a fresh AUTOINCREMENT id, so the
\* row is added; created_at is the current second, which may be the second
\* of the latest row
UpdateFeeConfig(currency, cfg, sameSecond) ==
    /\ Len(fee_configs) < Len(DefaultFeeConfigRows) + MaxFeeUpdates
    /\ fee_configs' = Append(fee_configs,
                             FeeConfigRow(currency, cfg,
                                          LastCreatedAt + (IF sameSecond THEN 0 ELSE 1)))
    /\ UNCHANGED <<ledger, delivery, retries, quote, exchange_rates, clock, rateCall, txCancels,
                   ticks, selection, listing>>

\* calculateFees: throws without a schedule, else the fee of the row
\* getFeeConfig returned
CalculateFees(destinationCurrency, destinationAmount) ==
    /\ \/ /\ getFeeConfig(destinationCurrency) = {}
          /\ quote' = [currency |-> destinationCurrency, amount |-> destinationAmount,
                       config |-> << >>, total_fee |-> 0, error |-> TRUE]
       \/ \E feeConfig \in getFeeConfig(destinationCurrency) :
            quote' = [currency |-> destinationCurrency, amount |-> destinationAmount,
                      config |-> feeConfig,
                      total_fee |-> totalFee(feeConfig, destinationAmount),
                      error |-> FALSE]
    /\ UNCHANGED <<ledger, delivery, retries, fee_configs, exchange_rates, clock, rateCall,
                   txCancels, ticks, selection, listing>>

FeeNext ==
    \/ \E currency \in FeeUpdateCurrencies, cfg \in FeeSchedules, sameSecond \in BOOLEAN :
            UpdateFeeConfig(currency, cfg, sameSecond)
    \/ \E currency \in QuoteCurrencies, amount \in QuoteAmounts :
            CalculateFees(currency, amount)

FeeSpec == Init /\ [][FeeNext]_vars

----------------------------------------------------------------------------
(* Properties of the Fee Calculator *)

\* a calculateFees call returned a fee
Quoted == quote.currency # "none" /\ ~quote.error

\* C18: the total_fee calculateFees returns is at least the minimum_fee of
\* the schedule it used and, when that schedule has a maximum_fee, at most
\* the maximum_fee, for every schedule stored through updateFeeConfig
C18_FeeClamped ==
    Quoted =>
        /\ quote.config.minimum_fee <= quote.total_fee
        /\ quote.config.maximum_fee # 0 => quote.total_fee <= quote.config.maximum_fee

----------------------------------------------------------------------------
(* Properties of the amounts createPayment stores *)

\* n / d rounded to the nearest integer, halves upwards
Round(n, d) == (2 * n + d) \div (2 * d)

\* C19: every stored payment has destination_amount = round2(source_amount *
\* exchange_rate), fee_amount = the fee calculated for the destination
\* currency on source_amount * exchange_rate, and total_amount =
\* round2(source_amount + fee_amount / exchange_rate), with the exchange_rate
\* stored at creation (amounts in cents, the rate in hundredths)
C19_AmountsConserved ==
    \A p \in Indices(payments) :
        LET row == payments[p]
            product == row.source_amount * row.exchange_rate
        IN  /\ row.destination_amount = Round(product, 100)
            /\ row.fee_amount = calculateFees(row.destination_currency, product \div 100)
            /\ row.total_amount = Round(product + 100 * row.fee_amount, row.exchange_rate)

\* a payment whose fee does not convert to whole cents at a rate other than 1
C19_Witness ==
    \E p \in Indices(payments) :
        /\ payments[p].exchange_rate # 100
        /\ payments[p].fee_amount > 0
        /\ (100 * payments[p].fee_amount) % payments[p].exchange_rate # 0
        /\ payments[p].total_amount > payments[p].source_amount

----------------------------------------------------------------------------
(* Rate Oracle: getExchangeRate on the cache table *)

\* getExchangeRate calls the model makes
MaxRateCalls == 3

\* minutes the model's clock may reach before its last tick
MaxClock == 20

\* the clock advances in thirds of the cache lifetime
ClockStep == CacheExpiryMinutes \div 3

\* the pairs getExchangeRate is called with; "XXX" is in no table
RatePairs ==
    { <<"USD", "USD">>, <<"EUR", "EUR">>, <<"XXX", "XXX">>,
      <<"USD", "EUR">>, <<"USD", "INR">> }

\* getCachedRate: the unexpired row of the pair, if any; the table is
\* UNIQUE(from_currency, to_currency, provider) and has one provider
getCachedRate(sourceCurrency, destinationCurrency) ==
    LET pair == <<sourceCurrency, destinationCurrency>>
    IN  IF pair \in DOMAIN exchange_rates /\ exchange_rates[pair].expires_at > clock
        THEN {exchange_rates[pair]}
        ELSE {}

\* cacheRate: INSERT OR REPLACE of the pair's row, expiring after
\* cacheExpiryMinutes
cacheRate(sourceCurrency, destinationCurrency, rate) ==
    LET pair == <<sourceCurrency, destinationCurrency>>
    IN  [k \in DOMAIN exchange_rates \cup {pair} |->
            IF k = pair
            THEN [rate |-> rate, expires_at |-> clock + CacheExpiryMinutes]
            ELSE exchange_rates[k]]

\* a call that returned 1.0 for equal currencies
SameCurrencyCall(sourceCurrency, destinationCurrency) ==
    [source |-> sourceCurrency, destination |-> destinationCurrency, pc |-> "done",
     rate |-> 100, cache_read |-> FALSE, cache_write |-> FALSE]

\* a call after getCachedRate: returned with the cached rate, or about to
\* fetch
LookupCall(sourceCurrency, destinationCurrency) ==
    LET cachedRate == getCachedRate(sourceCurrency, destinationCurrency)
    IN  IF cachedRate # {}
        THEN [source |-> sourceCurrency, destination |-> destinationCurrency,
              pc |-> "done", rate |-> (CHOOSE row \in cachedRate : TRUE).rate,
              cache_read |-> TRUE, cache_write |-> FALSE]
        ELSE [source |-> sourceCurrency, destination |-> destinationCurrency,
              pc |-> "fetch", rate |-> 0, cache_read |-> TRUE, cache_write |-> FALSE]

\* a getExchangeRate without the test for equal currencies
C20_mut_GetExchangeRate(sourceCurrency, destinationCurrency) ==
    /\ Len(rateCall) < MaxRateCalls
    /\ rateCall' = Append(rateCall, LookupCall(sourceCurrency, destinationCurrency))
    /\ UNCHANGED <<ledger, delivery, retries, fee_configs, quote, exchange_rates, clock,
                   txCancels, ticks, selection, listing>>

\* getExchangeRate up to its return on equal currencies or on a cache hit,
\* else up to the await of fetchExchangeRate
GetExchangeRate(sourceCurrency, destinationCurrency) ==
    /\ Len(rateCall) < MaxRateCalls
    /\ rateCall' = Append(rateCall,
                          IF sourceCurrency = destinationCurrency
                          THEN SameCurrencyCall(sourceCurrency, destinationCurrency)
                          ELSE LookupCall(sourceCurrency, destinationCurrency))
    /\ UNCHANGED <<ledger, delivery, retries, fee_configs, quote, exchange_rates, clock,
                   txCancels, ticks, selection, listing>>

\* getExchangeRate from fetchExchangeRate to its return: the fetched rate is
\* cached and returned
GetExchangeRateStore(c) ==
    /\ c \in Indices(rateCall)
    /\ rateCall[c].pc = "fetch"
    /\ \E rate \in fetchExchangeRate(rateCall[c].source, rateCall[c].destination) :
        /\ exchange_rates' = cacheRate(rateCall[c].source, rateCall[c].destination, rate)
        /\ rateCall' = [rateCall EXCEPT ![c].pc = "done", ![c].rate = rate,
                                        ![c].cache_write = TRUE]
    /\ UNCHANGED <<ledger, delivery, retries, fee_configs, quote, clock, txCancels, ticks,
                   selection, listing>>

\* time passes
Tick ==
    /\ clock < MaxClock
    /\ clock' = clock + ClockStep
    /\ UNCHANGED <<ledger, delivery, retries, fee_configs, quote, exchange_rates, rateCall,
                   txCancels, ticks, selection, listing>>

RateCallIds == 1..MaxRateCalls

RateNext ==
    \/ \E pair \in RatePairs : GetExchangeRate(pair[1], pair[2])
    \/ \E c \in RateCallIds : GetExchangeRateStore(c)
    \/ Tick

RateSpec == Init /\ [][RateNext]_vars

----------------------------------------------------------------------------
(* Properties of the Rate Oracle *)

\* the step is a getExchangeRate call with equal currencies
EqualCurrenciesCalled ==
    /\ Len(rateCall') = Len(rateCall) + 1
    /\ rateCall'[Len(rateCall')].source = rateCall'[Len(rateCall')].destination

\* C20: getExchangeRate(X, X) returns 1.0 at once for every currency X,
\* whatever the cache holds and whether or not X is in the rate table,
\* without reading or writing the cache
C20_SameCurrencyIsOne ==
    [][EqualCurrenciesCalled =>
            /\ rateCall'[Len(rateCall')].pc = "done"
            /\ rateCall'[Len(rateCall')].rate = 100
            /\ ~rateCall'[Len(rateCall')].cache_read
            /\ ~rateCall'[Len(rateCall')].cache_write
            /\ UNCHANGED exchange_rates]_vars

\* calls with equal currencies returned 1.0, for a currency of the rate table
\* and for one outside it, while the cache holds a rate
C20_Witness ==
    /\ exchange_rates # << >>
    /\ Len(rateCall) = MaxRateCalls
    /\ rateCall[1].cache_write
    /\ \E c \in Indices(rateCall) :
            rateCall[c].source = "USD" /\ rateCall[c].destination = "USD"
                /\ rateCall[c].rate = 100
    /\ \E c \in Indices(rateCall) :
            rateCall[c].source = "XXX" /\ rateCall[c].destination = "XXX"
                /\ rateCall[c].rate = 100

\* the step is a getExchangeRate call for different currencies that finds an
\* unexpired cache row
CacheHit ==
    /\ Len(rateCall') = Len(rateCall) + 1
    /\ rateCall'[Len(rateCall')].source # rateCall'[Len(rateCall')].destination
    /\ getCachedRate(rateCall'[Len(rateCall')].source,
                     rateCall'[Len(rateCall')].destination) # {}

\* the step is the return of call c after a fetch
FetchReturns(c) ==
    /\ c \in Indices(rateCall)
    /\ rateCall[c].pc = "fetch"
    /\ rateCall'[c].pc = "done"

\* C21: for different currencies a call that finds an unexpired row returns
\* its rate and leaves the cache alone; a call that found none stores the rate
\* it fetched, expiring 15 minutes later, and returns it; and the rate of a
\* row does not change before the row expires, so that all calls made while
\* it is unexpired return the same rate
C21_CachedRateIsStable ==
    [][/\ CacheHit =>
            /\ rateCall'[Len(rateCall')].pc = "done"
            /\ \E row \in getCachedRate(rateCall'[Len(rateCall')].source,
                                        rateCall'[Len(rateCall')].destination) :
                    rateCall'[Len(rateCall')].rate = row.rate
            /\ UNCHANGED exchange_rates
       /\ \A c \in RateCallIds :
            FetchReturns(c) =>
                exchange_rates'[<<rateCall[c].source, rateCall[c].destination>>]
                    = [rate |-> rateCall'[c].rate,
                       expires_at |-> clock + CacheExpiryMinutes]
       /\ \A pair \in DOMAIN exchange_rates :
            exchange_rates[pair].expires_at > clock =>
                exchange_rates'[pair].rate = exchange_rates[pair].rate]_vars

----------------------------------------------------------------------------
(* Properties of createPayment's checks *)

\* the step is a createPayment call for a destination currency without a fee
\* schedule
UnsupportedCalled ==
    /\ Len(creates') = Len(creates) + 1
    /\ ~isCurrencySupported(creates'[Len(creates')].request.destination_currency)

\* the call the step makes throws at once and nothing is stored or started
ThrowsAndStoresNothing ==
    /\ creates'[Len(creates')].pc = "done"
    /\ creates'[Len(creates')].error
    /\ creates'[Len(creates')].result = 0
    /\ UNCHANGED <<payments, transactions, webhooks, txTimer, flow, hist>>

\* no stored payment has a destination currency without a fee schedule
NoUnsupportedPayment ==
    \A p \in Indices(payments) : isCurrencySupported(payments[p].destination_currency)

\* C22 (as stated): every createPayment call for a destination currency
\* without a fee schedule fails with an error and stores and starts nothing
C22_AsStated ==
    [][UnsupportedCalled => ThrowsAndStoresNothing]_vars

\* C22: a createPayment call for a destination currency without a fee
\* schedule, made with an idempotency key no stored payment has, fails at once
\* with an error, stores no payment, transaction or webhook and starts no
\* flow; made with the key of a stored payment it returns that payment and
\* stores and starts nothing either
C22_UnsupportedCurrencyRejected ==
    /\ []NoUnsupportedPayment
    /\ [][UnsupportedCalled =>
            IF getPaymentByIdempotencyKey(
                    creates'[Len(creates')].request.idempotency_key) = 0
            THEN ThrowsAndStoresNothing
            ELSE /\ creates'[Len(creates')].pc = "done"
                 /\ ~creates'[Len(creates')].error
                 /\ creates'[Len(creates')].result =
                        getPaymentByIdempotencyKey(
                            creates'[Len(creates')].request.idempotency_key)
                 /\ UNCHANGED <<payments, transactions, webhooks, txTimer, flow, hist>>]_vars

\* a call for CHF threw while another payment was stored and in progress
C22_Witness ==
    \E c \in Indices(creates) :
        /\ creates[c].request.destination_currency = "CHF"
        /\ creates[c].pc = "done"
        /\ creates[c].error
        /\ Len(payments) = 1
        /\ payments[1].idempotency_key # creates[c].request.idempotency_key
        /\ payments[1].status = PROCESSING

\* the request has a non-positive amount or equal currencies
InvalidRequest(request) ==
    \/ request.source_amount <= 0
    \/ request.source_currency = request.destination_currency

\* C23: a createPayment call whose request has source_amount <= 0 or equal
\* source and destination currencies returns an error (unless it replays a
\* stored payment of its key), and no stored payment has such an amount or
\* such currencies
C23_InvalidRequestRejected ==
    /\ \A c \in Indices(creates) :
            (InvalidRequest(creates[c].request) /\ creates[c].pc = "done"
                    /\ ~creates[c].replay)
                => creates[c].error /\ creates[c].result = 0
    /\ \A p \in Indices(payments) : ~InvalidRequest(payments[p])

----------------------------------------------------------------------------
(* Properties of the flow boundary *)

\* the step is the catch of an error in the background sequence of payment
\* p: the catch block of processPayment or processOfframp after the adapter
\* threw, or handlePaymentFailure in the catch block of the workflow
FlowErrorCaught(p) ==
    /\ p \in Indices(flow)
    /\ \/ variant = "timer" /\ flow[p].pc \in {"collect", "payout"} /\ flow'[p].pc = "done"
       \/ variant = "temporal" /\ flow[p].pc = "catch" /\ flow'[p].pc = "finally"

\* the step is the INSERT of createPayment call c followed by a failed start
\* of the workflow
StartFailed(c) ==
    /\ c \in Indices(creates)
    /\ creates[c].pc = "insert"
    /\ Len(payments') = Len(payments) + 1
    /\ creates'[c].error

\* payment p was created by a request with a callback URL
CreatedWithUrl(p) ==
    \E c \in Indices(creates) :
        creates[c].result = p /\ ~creates[c].replay /\ creates[c].request.webhook_url

\* C24: when a step of a Payment's background sequence, or the start of its
\* workflow, raises an error, the status becomes FAILED and, when the
\* Payment was created with a callback URL, a payment.failed webhook exists
\* for it
C24_ErrorsEndFailed ==
    [][/\ \A p \in CallIds :
            FlowErrorCaught(p) =>
                /\ payments'[p].status = FAILED
                /\ CreatedWithUrl(p) =>
                      \E w \in Indices(webhooks'[p]) :
                            webhooks'[p][w].event_type = PAYMENT_FAILED
       /\ \A c \in CallIds :
            StartFailed(c) =>
                /\ payments'[Len(payments')].status = FAILED
                /\ creates[c].request.webhook_url =>
                      \E w \in Indices(webhooks'[Len(payments')]) :
                            webhooks'[Len(payments')][w].event_type = PAYMENT_FAILED]_vars

----------------------------------------------------------------------------
(* Settlement Provider Adapter: cancelTransaction, and polls that overlap *)

\* cancelTransaction calls the model makes
MaxTxCancels == 2

\* callbacks of one poll that may await their read at the same time
MaxTicks == 2

\* getTransactionStatus: the row of transaction t of payment p, if any
getTransactionStatus(p, t) ==
    IF p \in Indices(transactions) /\ t \in Indices(transactions[p])
    THEN {transactions[p][t]}
    ELSE {}

\* cancelTransaction up to its UPDATE: false for an unknown transaction and
\* for one that is not processing
CancelTransactionRead(p, t) ==
    /\ Len(txCancels) < MaxTxCancels
    /\ LET transaction == getTransactionStatus(p, t)
           call == [payment |-> p, transaction |-> t, pc |-> "done", result |-> FALSE]
       IN  txCancels' = Append(txCancels,
                IF transaction = {} \/ \A row \in transaction : row.status # TX_PROCESSING
                THEN call
                ELSE [call EXCEPT !.pc = "write"])
    /\ UNCHANGED <<ledger, delivery, retries, fee_configs, quote, exchange_rates, clock,
                   rateCall, ticks, selection, listing>>

\* cancelTransaction from its UPDATE on: the status becomes failed, whatever
\* it is by now, and the call returns true
CancelTransactionWrite(c) ==
    /\ c \in Indices(txCancels)
    /\ txCancels[c].pc = "write"
    /\ transactions' = [transactions EXCEPT
                            ![txCancels[c].payment][txCancels[c].transaction].status = TX_FAILED]
    /\ txCancels' = [txCancels EXCEPT ![c].pc = "done", ![c].result = TRUE]
    /\ UNCHANGED <<variant, payments, webhooks, txTimer, flow, hist, creates, cancels>>
    /\ UNCHANGED <<delivery, retries, fee_configs, quote, exchange_rates, clock, rateCall,
                   ticks, selection, listing>>

\* the callbacks of payment p's onramp poll that await getTransactionStatus
TicksOf(p) == IF p \in DOMAIN ticks THEN ticks[p] ELSE 0

SetTicks(p, n) ==
    ticks' = [q \in DOMAIN ticks \cup {p} |-> IF q = p THEN n ELSE ticks[q]]

\* the interval of monitorOnrampCompletion fires while it is not cleared: a
\* callback starts and awaits getTransactionStatus
TickFires(p) ==
    /\ FlowAt(p, "monitor_onramp")
    /\ TicksOf(p) < MaxTicks
    /\ SetTicks(p, TicksOf(p) + 1)
    /\ UNCHANGED <<ledger, delivery, retries, fee_configs, quote, exchange_rates, clock,
                   rateCall, txCancels, selection, listing>>

\* a callback of monitorOnrampCompletion gets the transaction it awaited.
\* Completed: it clears the interval, writes ONRAMP_COMPLETE, schedules the
\* onramp.completed webhook and calls processOfframp; failed: it clears the
\* interval and writes FAILED; processing: it ends.  Clearing the interval
\* stops no callback that has started.  Of the processOfframp runs of one
\* payment the flow position follows the one started last.
TickReads(p) ==
    /\ p \in Indices(flow)
    /\ variant = "timer"
    /\ TicksOf(p) > 0
    /\ SetTicks(p, TicksOf(p) - 1)
    /\ LET onrampTransaction == transactions[p][flow[p].onramp_tx]
       IN  \/ /\ onrampTransaction.status = TX_COMPLETED
              /\ SetStatus(p, ONRAMP_COMPLETE)
              /\ webhooks' = scheduleWebhook(StatusWebhook(webhooks, p, ONRAMP_COMPLETE),
                                             p, ONRAMP_COMPLETED)
              /\ flow' = [flow EXCEPT ![p].pc = "offramp_start"]
           \/ /\ onrampTransaction.status = TX_FAILED
              /\ updatePaymentStatus(p, FAILED)
              /\ flow' = [flow EXCEPT ![p].pc = "done"]
           \/ /\ onrampTransaction.status = TX_PROCESSING
              /\ UNCHANGED <<payments, webhooks, flow, hist>>
    /\ UNCHANGED <<variant, transactions, txTimer, creates, cancels>>
    /\ UNCHANGED <<delivery, retries, fee_configs, quote, exchange_rates, clock, rateCall,
                   txCancels, selection, listing>>

\* the request of the scenario: 200 USD to EUR, which passes both legs
SettlementScenarioRequests ==
    {request \in CreatePaymentRequests :
        /\ request.idempotency_key = "k1"
        /\ request.source_currency = "USD"
        /\ request.destination_currency = "EUR"
        /\ OnrampAccepts(request.source_amount * 100, request.source_currency, "card")
                # NoProvider}

\* the state in which the timer-based createPayment(request) has returned
\* the payment it created
SettlementInit ==
    \E request \in SettlementScenarioRequests :
        \E exchangeRate \in getExchangeRate(request.source_currency,
                                            request.destination_currency) :
            /\ variant = "timer"
            /\ payments = << PaymentRow(request, exchangeRate) >>
            /\ hist = << << PENDING >> >>
            /\ transactions = << << >> >>
            /\ txTimer = << << >> >>
            /\ webhooks = << IF request.webhook_url
                             THEN << WebhookRowWithUrl(PAYMENT_CREATED) >> ELSE << >> >>
            /\ flow = << [NoFlow EXCEPT !.pc = "start"] >>
            /\ creates = << [request |-> request, after |-> {},
                             row |-> << PaymentRow(request, exchangeRate) >>,
                             pc |-> "done", result |-> 1, error |-> FALSE,
                             replay |-> FALSE] >>
            /\ cancels = << >>
            /\ AuxInit

\* transaction ids cancelTransaction is called with, of transactions that
\* exist and of transactions that do not
CancelTransactionIds == 1..3

\* the flow of the payment with its polls split into callbacks, the
\* resolution of its transactions, and cancelTransaction
SettlementNext ==
    \/ \E p \in CallIds : ProcessPaymentStart(p)
    \/ \E p \in CallIds : ProcessPaymentOnramp(p)
    \/ \E p \in CallIds : TickFires(p)
    \/ \E p \in CallIds : TickReads(p)
    \/ \E p \in CallIds : ProcessOfframpStart(p)
    \/ \E p \in CallIds : ProcessOfframpPayout(p)
    \/ \E p \in CallIds : MonitorOfframpTick(p)
    \/ \E p \in CallIds, t \in CancelTransactionIds : SimulateAsyncProcessing(p, t)
    \/ \E p \in CallIds, t \in CancelTransactionIds : CancelTransactionRead(p, t)
    \/ \E c \in 1..MaxTxCancels : CancelTransactionWrite(c)

SettlementSpec == SettlementInit /\ [][SettlementNext]_vars

----------------------------------------------------------------------------
(* Properties of the settlement transactions *)

\* the transactions stored: payment and position
TransactionKeys ==
    UNION {{<<p, t>> : t \in Indices(transactions[p])} : p \in Indices(transactions)}

\* C25: a settlement transaction whose status is completed or failed keeps
\* that status in every later step, whatever the order of its delayed
\* resolution and of cancelTransaction
C25_ResolvedIsFinal ==
    [][\A k \in TransactionKeys :
            transactions[k[1]][k[2]].status \in {TX_COMPLETED, TX_FAILED}
                => transactions'[k[1]][k[2]].status = transactions[k[1]][k[2]].status]_vars

\* the step is the return of cancelTransaction call c
CancelTransactionReturns(c) ==
    /\ c \in Indices(txCancels')
    /\ txCancels'[c].pc = "done"
    /\ c \in Indices(txCancels) => txCancels[c].pc = "write"

\* C26: cancelTransaction(t) returns true, having set the status to failed,
\* only when t exists and is processing; for an unknown transaction and for
\* one in another status it returns false and changes no transaction
C26_CancelOnlyProcessing ==
    [][\A c \in 1..MaxTxCancels :
            CancelTransactionReturns(c) =>
                LET p == txCancels'[c].payment
                    t == txCancels'[c].transaction
                IN  IF <<p, t>> \in TransactionKeys
                        /\ transactions[p][t].status = TX_PROCESSING
                    THEN /\ txCancels'[c].result
                         /\ transactions' = [transactions EXCEPT ![p][t].status = TX_FAILED]
                    ELSE /\ ~txCancels'[c].result
                         /\ UNCHANGED transactions]_vars

\* C27: every Payment has at most one onramp transaction and at most one
\* offramp transaction, also when callbacks of one poll overlap
C27_OneTransactionPerLeg ==
    \A p \in Indices(transactions) :
        /\ Cardinality(TransactionsOfType(p, ONRAMP)) <= 1
        /\ Cardinality(TransactionsOfType(p, OFFRAMP)) <= 1

----------------------------------------------------------------------------
(* Settlement Provider Adapter: selectProvider *)

\* payout amounts in cents, from below every minimum to above every maximum
OfframpAmounts == {50, 500, 5000, 16800, 150000, 3000000, 20000000, 200000000}

\* destination currencies: of several providers, of one, of none
OfframpCurrencies == {"EUR", "GBP", "USD", "INR", "BRL", "CHF", "JPY", "BTC", "XXX"}

\* collection amounts in cents, from below every minimum to above every maximum
OnrampAmounts == {50, 5000, 50000, 2000000, 6000000, 20000000, 200000000}

\* payment methods: of the registry, none given, and one no provider has
OnrampMethods == {"card", "digital_wallet", "bank_transfer", "stablecoin", "wire",
                  NoMethod, "cash"}

\* OfframpService.selectProvider on a request with exchange_rate 1
SelectOfframpProvider(amount, destination_currency) ==
    /\ selection' = [leg |-> OFFRAMP, amount |-> amount, key |-> destination_currency,
                     provider |-> OfframpSelectProvider(amount, destination_currency)]
    /\ UNCHANGED <<ledger, delivery, retries, fee_configs, quote, exchange_rates, clock,
                   rateCall, txCancels, ticks, listing>>

\* OnrampService.selectProvider
SelectOnrampProvider(amount, method) ==
    /\ selection' = [leg |-> ONRAMP, amount |-> amount, key |-> method,
                     provider |-> OnrampSelectProvider(amount, method)]
    /\ UNCHANGED <<ledger, delivery, retries, fee_configs, quote, exchange_rates, clock,
                   rateCall, txCancels, ticks, listing>>

SelectionNext ==
    \/ \E amount \in OfframpAmounts, currency \in OfframpCurrencies :
            SelectOfframpProvider(amount, currency)
    \/ \E amount \in OnrampAmounts, method \in OnrampMethods :
            SelectOnrampProvider(amount, method)

SelectionSpec == Init /\ [][SelectionNext]_vars

----------------------------------------------------------------------------
(* Properties of selectProvider *)

\* the payout providers that support the currency and whose limits hold the
\* amount
OfframpCandidates(amount, currency) ==
    {p \in SeqToSet(OfframpProviders) :
        currency \in p.supported_currencies /\ InLimits(amount, p)}

OnrampCandidates(amount, method) ==
    {p \in SeqToSet(OnrampProviders) :
        (method = NoMethod \/ method \in p.payment_methods) /\ InLimits(amount, p)}

\* C29: the onramp selectProvider returns the provider with the highest
\* success rate among those that support the payment method and whose limits
\* hold the amount (no two providers of the registry have the same rate), and
\* fails when there is none
C29_OnrampSelectsBest ==
    selection.leg = ONRAMP =>
        LET candidates == OnrampCandidates(selection.amount, selection.key)
        IN  IF candidates = {} THEN selection.provider = NoProvider
            ELSE /\ selection.provider \in candidates
                 /\ \A p \in candidates :
                        p.success_rate <= selection.provider.success_rate

----------------------------------------------------------------------------
(* Payment Ledger: getUserPayments *)

\* idempotency keys of the payments listed, in the order of their creation
ListKeys == << "k1", "k2", "k3" >>

\* the users who own payments
ListUsers == {"u1", "u2"}

\* the pages and page sizes asked for
ListPages == 1..3
ListLimits == 1..2

\* the request of the i-th payment, made by user: 200 USD to EUR
ListRequest(i, user) ==
    [idempotency_key      |-> ListKeys[i],
     user_id              |-> user,
     source_amount        |-> 200,
     source_currency      |-> "USD",
     destination_currency |-> "EUR",
     webhook_url          |-> FALSE]

\* created_at DATETIME DEFAULT CURRENT_TIMESTAMP, in seconds: a payment is
\* created in the second of the one before it, or in the next
CreatedAt(i, sameSecond) ==
    Cardinality({j \in 2..i : ~sameSecond[j]})

\* the states in which some createPayment calls of the timer-based
\* orchestrator have returned the payments they created
ListInit ==
    \E n \in 0..Len(ListKeys) :
        \E users \in [1..n -> ListUsers], sameSecond \in [2..n -> BOOLEAN] :
            \E exchangeRate \in getExchangeRate("USD", "EUR") :
                LET row(i) == PaymentRow(ListRequest(i, users[i]), exchangeRate)
                IN  /\ variant = "timer"
                    /\ payments = [i \in 1..n |->
                                      row(i) @@ [created_at |-> CreatedAt(i, sameSecond)]]
                    /\ hist = [i \in 1..n |-> << PENDING >>]
                    /\ transactions = [i \in 1..n |-> << >>]
                    /\ txTimer = [i \in 1..n |-> << >>]
                    /\ webhooks = [i \in 1..n |-> << >>]
                    /\ flow = [i \in 1..n |-> [NoFlow EXCEPT !.pc = "start"]]
                    /\ creates = [i \in 1..n |->
                                     [request |-> ListRequest(i, users[i]), after |-> 1..(i - 1),
                                      row |-> << row(i) >>, pc |-> "done", result |-> i,
                                      error |-> FALSE, replay |-> FALSE]]
                    /\ cancels = << >>
                    /\ AuxInit

\* the orders in which ORDER BY created_at DESC may return the rows ids: the
\* order of rows of equal created_at is not defined
OrderByCreatedAtDesc(ids) ==
    {sorted \in [1..Cardinality(ids) -> ids] :
        /\ \A i, j \in 1..Cardinality(ids) : i # j => sorted[i] # sorted[j]
        /\ \A i, j \in 1..Cardinality(ids) :
              i < j => payments[sorted[i]].created_at >= payments[sorted[j]].created_at}

\* LIMIT count OFFSET offset on the rows sorted
LimitOffset(sorted, count, offset) ==
    IF offset >= Len(sorted) THEN << >>
    ELSE SubSeq(sorted, offset + 1,
                IF offset + count < Len(sorted) THEN offset + count ELSE Len(sorted))

\* getUserPayments(userId, page, limit): the user's rows by created_at DESC,
\* limit + 1 of them from (page - 1) * limit on; hasMore when all limit + 1
\* came, and then the last is dropped; the count of the user's rows
GetUserPayments(userId, page, limit) ==
    LET offset == (page - 1) * limit
        mine == {p \in Indices(payments) : payments[p].user_id = userId}
    IN  /\ \E sorted \in OrderByCreatedAtDesc(mine) :
              LET rows == LimitOffset(sorted, limit + 1, offset)
                  hasMore == Len(rows) > limit
                  resultPayments == IF hasMore THEN SubSeq(rows, 1, Len(rows) - 1) ELSE rows
              IN  listing' = [user_id |-> userId, page |-> page, limit |-> limit,
                              payments |-> resultPayments, total |-> Cardinality(mine),
                              hasMore |-> hasMore]
        /\ UNCHANGED <<ledger, delivery, retries, fee_configs, quote, exchange_rates, clock,
                       rateCall, txCancels, ticks, selection>>

ListNext ==
    \E userId \in ListUsers, page \in ListPages, limit \in ListLimits :
        GetUserPayments(userId, page, limit)

ListSpec == ListInit /\ [][ListNext]_vars

----------------------------------------------------------------------------
(* Properties of getUserPayments *)

\* the payments of a user
PaymentsOf(userId) == {p \in Indices(payments) : payments[p].user_id = userId}

\* C30: getUserPayments(userId, page, limit) returns at most limit payments,
\* all of that user, the newer before the older (payment p is the p-th
\* created), with hasMore true exactly when the user has more than
\* page * limit payments, and it changes nothing stored
C30_ListingIsNewestFirst ==
    [][listing' # listing =>
          /\ Len(listing'.payments) <= listing'.limit
          /\ \A i \in Indices(listing'.payments) :
                listing'.payments[i] \in PaymentsOf(listing'.user_id)
          /\ \A i, j \in Indices(listing'.payments) :
                i < j => listing'.payments[i] > listing'.payments[j]
          /\ listing'.hasMore <=>
                (Cardinality(PaymentsOf(listing'.user_id)) > listing'.page * listing'.limit)
          /\ UNCHANGED <<ledger, delivery, retries, fee_configs, quote, exchange_rates, clock,
                         rateCall, txCancels, ticks, selection>>]_vars

----------------------------------------------------------------------------
(* POST /payments/estimate-fees *)

\* request bodies that pass estimateFeesSchema: a pair with a fee schedule,
\* a pair without one (CHF), and equal currencies
EstimateRequests ==
    { [source_amount |-> amount, source_currency |-> pair[1],
       destination_currency |-> pair[2]] :
          amount \in {100, 200},
          pair \in { <<"USD", "EUR">>, <<"USD", "INR">>, <<"USD", "CHF">>,
                     <<"EUR", "EUR">> } }

\* the handler of POST /estimate-fees: getExchangeRate, which returns 1.0,
\* the cached rate, or a fetched rate that it caches; then getFeeEstimate,
\* whose calculateFees throws (answered with 400) without a fee schedule
EstimateFees(body) ==
    LET source == body.source_currency
        destination == body.destination_currency
        cachedRate == getCachedRate(source, destination)
        handled(exchangeRate) ==
            LET destinationAmount == body.source_amount * exchangeRate
                feeConfig == getFeeConfig(destination)
            IN  \/ /\ feeConfig = {}
                   /\ quote' = [currency |-> destination, amount |-> destinationAmount,
                                config |-> << >>, total_fee |-> 0, error |-> TRUE]
                \/ \E row \in feeConfig :
                       quote' = [currency |-> destination, amount |-> destinationAmount,
                                 config |-> row,
                                 total_fee |-> totalFee(row, destinationAmount),
                                 error |-> FALSE]
    IN  /\ IF source = destination
           THEN handled(100) /\ UNCHANGED exchange_rates
           ELSE IF cachedRate # {}
           THEN handled((CHOOSE row \in cachedRate : TRUE).rate) /\ UNCHANGED exchange_rates
           ELSE \E rate \in fetchExchangeRate(source, destination) :
                   /\ exchange_rates' = cacheRate(source, destination, rate)
                   /\ handled(rate)
        /\ UNCHANGED <<ledger, delivery, retries, fee_configs, clock, rateCall, txCancels,
                       ticks, selection, listing>>

EstimateNext ==
    \/ \E body \in EstimateRequests : EstimateFees(body)
    \/ Tick

EstimateSpec == Init /\ [][EstimateNext]_vars

----------------------------------------------------------------------------
(* Properties of POST /payments/estimate-fees *)

\* C31: handling an estimate-fees request creates or changes no payment, no
\* settlement transaction, no webhook delivery and no other stored row,
\* whether it succeeds or fails
C31_EstimatePersistsNothing ==
    [][UNCHANGED <<payments, transactions, webhooks, fee_configs, exchange_rates>>]_vars

----------------------------------------------------------------------------
(* Properties of the sequence of the steps *)

\* the statuses written to the row of payment p
Written(p) == {hist[p][i] : i \in Indices(hist[p])}

\* the transactions of payment p of the type that are completed
CompletedOfType(p, type) ==
    {t \in TransactionsOfType(p, type) : transactions[p][t].status = TX_COMPLETED}

\* C32: the steps of one Payment run in sequence: it has an offramp
\* transaction only after its onramp transaction completed and
\* ONRAMP_COMPLETE was written to it, and COMPLETED is written to it only
\* after its offramp transaction completed
C32_StepsInSequence ==
    \A p \in Indices(payments) :
        /\ TransactionsOfType(p, OFFRAMP) # {}
              => /\ CompletedOfType(p, ONRAMP) # {}
                 /\ ONRAMP_COMPLETE \in Written(p)
        /\ COMPLETED \in Written(p) => CompletedOfType(p, OFFRAMP) # {}

\* a payment went through both legs and COMPLETED was written to it
C32_Witness ==
    \E p \in Indices(payments) :
        /\ COMPLETED \in Written(p)
        /\ TransactionsOfType(p, OFFRAMP) # {}
        /\ TransactionsOfType(p, ONRAMP) # {}

----------------------------------------------------------------------------
(* Properties of the finalize step *)

\* the paymentWorkflow of payment p has finished
WorkflowFinished(p) == variant = "temporal" /\ flow[p].pc \in {"done", "cancelled"}

\* the paymentWorkflow of payment p finished through its finally block, in
\* which cleanupPayment ran
CleanedUp(p) == flow[p].pc = "done"

\* the step is the finally block of the paymentWorkflow of payment p
CleanupRuns(p) == WorkflowAt(p, "finally") /\ flow'[p].pc = "done"

\* C33: every execution of paymentWorkflow runs cleanupPayment before it
\* finishes, on the success path and on every failure path, and
\* cleanupPayment changes no payment
C33_CleanupAlwaysRuns ==
    /\ [](\A p \in Indices(flow) : WorkflowFinished(p) => CleanedUp(p))
    /\ [][\A p \in Indices(flow) : CleanupRuns(p) => UNCHANGED <<payments, hist>>]_vars

----------------------------------------------------------------------------
(* The settlement legs while the rate cache expires and is refilled *)

\* the state in which the timer-based createPayment(request) has returned
\* the payment it created, at the rate it fetched and cached
SnapshotInit ==
    \E request \in SettlementScenarioRequests :
        \E exchangeRate \in getExchangeRate(request.source_currency,
                                            request.destination_currency) :
            /\ variant = "timer"
            /\ payments = << PaymentRow(request, exchangeRate) >>
            /\ hist = << << PENDING >> >>
            /\ transactions = << << >> >>
            /\ txTimer = << << >> >>
            /\ webhooks = << IF request.webhook_url
                             THEN << WebhookRowWithUrl(PAYMENT_CREATED) >> ELSE << >> >>
            /\ flow = << [NoFlow EXCEPT !.pc = "start"] >>
            /\ creates = << [request |-> request, after |-> {},
                             row |-> << PaymentRow(request, exchangeRate) >>,
                             pc |-> "done", result |-> 1, error |-> FALSE,
                             replay |-> FALSE] >>
            /\ cancels = << >>
            /\ clock = 0
            /\ exchange_rates = (<<request.source_currency, request.destination_currency>>
                                    :> [rate |-> exchangeRate,
                                        expires_at |-> clock + CacheExpiryMinutes])
            /\ delivery = << >>
            /\ retries = << >>
            /\ fee_configs = DefaultFeeConfigRows
            /\ quote = NoQuote
            /\ rateCall = << >>
            /\ txCancels = << >>
            /\ ticks = << >>
            /\ selection = NoSelection
            /\ listing = NoListing

\* the flow of the payment, the passing of time, and getExchangeRate calls
\* for its pair (of other createPayment or estimate requests)
SnapshotNext ==
    \/ \E p \in CallIds : ProcessPaymentStart(p)
    \/ \E p \in CallIds : ProcessPaymentOnramp(p)
    \/ \E p \in CallIds : MonitorOnrampTick(p)
    \/ \E p \in CallIds : ProcessOfframpStart(p)
    \/ \E p \in CallIds : ProcessOfframpPayout(p)
    \/ \E p \in CallIds : MonitorOfframpTick(p)
    \/ \E p \in CallIds, t \in TransactionIds : SimulateAsyncProcessing(p, t)
    \/ GetExchangeRate("USD", "EUR")
    \/ \E c \in RateCallIds : GetExchangeRateStore(c)
    \/ Tick

SnapshotSpec == SnapshotInit /\ [][SnapshotNext]_vars

----------------------------------------------------------------------------
(* Properties of the amounts of the legs *)

\* C34: the legs use the quote stored on the Payment: its onramp transaction
\* has the Payment's total_amount in its source currency and its offramp
\* transaction the Payment's destination_amount in its destination currency,
\* also when the cached rate has expired and been replaced since the
\* Payment was created
C34_LegsUseStoredQuote ==
    \A p \in Indices(payments) :
        \A t \in Indices(transactions[p]) :
            /\ transactions[p][t].type = ONRAMP
                  => /\ transactions[p][t].amount = payments[p].total_amount
                     /\ transactions[p][t].currency = payments[p].source_currency
            /\ transactions[p][t].type = OFFRAMP
                  => /\ transactions[p][t].amount = payments[p].destination_amount
                     /\ transactions[p][t].currency = payments[p].destination_currency

\* a payment has both transactions and the cache holds, for its pair, a row
\* stored after the first expired, with another rate than the payment's
C34_Witness ==
    \E p \in Indices(payments) :
        LET pair == <<payments[p].source_currency, payments[p].destination_currency>>
        IN  /\ TransactionsOfType(p, ONRAMP) # {}
            /\ TransactionsOfType(p, OFFRAMP) # {}
            /\ pair \in DOMAIN exchange_rates
            /\ exchange_rates[pair].rate # payments[p].exchange_rate
            /\ exchange_rates[pair].expires_at > CacheExpiryMinutes

----------------------------------------------------------------------------
(* Properties of the webhook records of a payment *)

\* C35: there is at most one webhook delivery record per payment and event
\* type: no status transition or step of the flow adds a second record of an
\* event type the payment already has
C35_OneDeliveryPerEvent ==
    \A p \in Indices(webhooks) :
        \A v, w \in Indices(webhooks[p]) :
            webhooks[p][v].event_type = webhooks[p][w].event_type => v = w

\* C36: every webhook delivery attempt made for a Payment is posted to the
\* callback URL its creator supplied, and a Payment created without a
\* callback URL causes no delivery attempt (every webhook record starts with
\* an attempt)
C36_PostedToCallerUrl ==
    \A k \in WebhookIds :
        /\ CreatedWithUrl(k[1])
        /\ WebhookOf(k).url = CallerUrl

\* C37: under fair scheduling of the retry timers every scheduled webhook
\* delivery eventually has status sent or failed, whether the endpoint
\* succeeds, always fails, or fails a few times and then succeeds
C37_DeliveryEventuallyResolved ==
    \A p \in CallIds, w \in WebhookPositions :
        (<<p, w>> \in WebhookIds)
            ~> (<<p, w>> \in WebhookIds /\ WebhookOf(<<p, w>>).status \in {WH_SENT, WH_FAILED})

\* a delivery was sent after two failed attempts, with nothing left in
\* flight
C37_Witness ==
    \E k \in WebhookIds :
        /\ WebhookOf(k).status = WH_SENT
        /\ WebhookOf(k).retry_count = 2
        /\ DeliveryOf(k[1], k[2]) = [inflight |-> 0, timers |-> 0]

----------------------------------------------------------------------------
(* Properties of overlapping createPayment calls *)

\* call c reaches its INSERT in this step while a payment with its key is
\* stored: it loses the insert
LosesInsert(c) ==
    /\ creates[c].pc = "insert"
    /\ creates'[c].pc = "done"
    /\ PaymentsWithKey(creates[c].request.idempotency_key) # {}

\* C38: when two createPayment calls with one idempotency key overlap, the
\* call that loses the insert returns the existing Payment, the one the
\* winning call returns, instead of failing with an error
C38_LoserReturnsExisting ==
    [][\A c \in Indices(creates) :
          LosesInsert(c)
          => /\ ~creates'[c].error
             /\ creates'[c].result \in PaymentsWithKey(creates[c].request.idempotency_key)]_vars

----------------------------------------------------------------------------
(* Properties of the status of a payment and of its transactions *)

\* C39: a Payment with status COMPLETED has an onramp and an offramp
\* transaction that are both completed, and a Payment with status
\* ONRAMP_COMPLETE or OFFRAMP_PROCESSING has a completed onramp transaction
C39_StatusMatchesTransactions ==
    \A p \in Indices(payments) :
        /\ payments[p].status = COMPLETED
              => /\ CompletedOfType(p, ONRAMP) # {}
                 /\ CompletedOfType(p, OFFRAMP) # {}
        /\ payments[p].status \in {ONRAMP_COMPLETE, OFFRAMP_PROCESSING}
              => CompletedOfType(p, ONRAMP) # {}

----------------------------------------------------------------------------
(* Properties of the payments the card provider does not take *)

\* the onramp refuses payment p: its source currency is not USD, or its
\* total_amount is below 1.00 or above 10000.00
OnrampRefuses(p) ==
    \/ payments[p].source_currency # "USD"
    \/ payments[p].total_amount < 100
    \/ payments[p].total_amount > 1000000

\* C40: a Payment whose source currency is not USD, or whose total_amount is
\* below 1 or above 10000, ends in FAILED and never has an onramp or an
\* offramp transaction
C40_RefusedEndsFailed ==
    \A p \in Indices(payments) :
        OnrampRefuses(p)
        => /\ transactions[p] = << >>
           /\ Quiescent(p) => payments[p].status = FAILED

====
